---------------------------- MODULE Spec2Model ----------------------------
(***************************************************************************)
(* A model of juno-txbuild's plan-construction core: the fee policy, the   *)
(* note selector (cascade and historical greedy variant), the dust-change  *)
(* suppressor, the consolidation selector and the plan operations of       *)
(* pkg/txbuild.                                                            *)
(*                                                                         *)
(* Machine integers are modelled with their wrap-around: uint64 values     *)
(* live in 0..MaxUint64 and uint32 values in 0..MaxUint32, where the two   *)
(* maxima are scaled-down stand-ins for 2^64-1 and 2^32-1 (TLC's integers  *)
(* are 32-bit); every sum the code computes is reduced modulo max+1.       *)
(***************************************************************************)
EXTENDS Integers, Sequences, FiniteSets, TLC

VARIABLES
    pc,      \* position of the modelled call: "call" (not yet run) or "done"
    op,      \* the operation the call runs
    cfg,     \* the arguments / configuration of the call
    notes,   \* the candidate notes handed to the operation
    world,   \* what the collaborators (node, indexer) answer
    out      \* the value the operation returned

vars == <<pc, op, cfg, notes, world, out>>

---------------------------------------------------------------------------
(* Bounds of the model *)

MaxUint64 == 1000000

MaxUint32 == 255

MaxNotes == 4

MaxOutputs == 3

MaxPlanNotes == 3

MaxRaw == 2

MaxSelected == 2

MaxCursors == 2

MaxCallerOutputs == 2

MaxOrderNotes == 3

MaxFeeCount == 5

\* The depth of the commitment tree, scaled down from 32.
TreeDepth == 3

MaxLeaves == 4

\* The largest value of the 64-bit word of ParseZECToZat, scaled to 30 bits so
\* that the factor 10^8 keeps its value.
MaxZatWord == 1073741823

(* Program constants *)

MarginalFee == 5000

MinActions == 2

DefaultExpiryOffset == 40

DefaultMaxSpends == 50

MemoLimitBytes == 512

HexLen32 == 64

EncCiphertextHexLen == 104

PathDepth == 32

ZatPerZEC == 100000000

FracDigits == 8

---------------------------------------------------------------------------
(* Helpers *)

RECURSIVE SumValues(_)
SumValues(ns) ==
    IF ns = <<>> THEN 0 ELSE Head(ns).value + SumValues(Tail(ns))

RECURSIVE SumSeq(_)
SumSeq(s) == IF s = <<>> THEN 0 ELSE Head(s) + SumSeq(Tail(s))

\* addUint64: the wrapped sum and whether it did not wrap.
addUint64(a, b) ==
    LET sum == (a + b) % (MaxUint64 + 1)
    IN  IF sum < a THEN [v |-> 0, ok |-> FALSE] ELSE [v |-> sum, ok |-> TRUE]

\* A product that wraps without notice.
mulUint64Unchecked(a, b) == [v |-> (a * b) % (MaxUint64 + 1), ok |-> TRUE]

\* mulUint64: the checked product.
mulUint64(a, b) ==
    IF a = 0 \/ b = 0 THEN [v |-> 0, ok |-> TRUE]
    ELSE IF a > MaxUint64 \div b THEN [v |-> 0, ok |-> FALSE]
    ELSE [v |-> (a * b) % (MaxUint64 + 1), ok |-> TRUE]

\* FeePolicy.Apply
Apply(p, base) ==
    LET mult == IF p.Multiplier = 0 THEN 1 ELSE p.Multiplier
        m    == mulUint64(base, mult)
    IN  IF ~m.ok THEN [v |-> 0, ok |-> FALSE]
        ELSE LET a == addUint64(m.v, p.AddZat)
             IN  IF ~a.ok THEN [v |-> 0, ok |-> FALSE] ELSE a

\* RequiredFeeSend
RequiredFeeSend(spendCount, outputCount) ==
    LET a1 == IF outputCount > spendCount THEN outputCount ELSE spendCount
        actions == IF a1 < MinActions THEN MinActions ELSE a1
    IN  (MarginalFee * actions) % (MaxUint64 + 1)

\* A comparison by value alone.
LessAscByValueOnly(a, b) == a.value < b.value

\* The comparison of sortByAsc: value ascending, then txid, then action index.
LessAsc(a, b) ==
    IF a.value # b.value THEN a.value < b.value
    ELSE IF a.txid # b.txid THEN a.txid < b.txid
    ELSE a.idx < b.idx

\* The comparison of sortByDesc: value descending, then txid, then action index.
LessDesc(a, b) ==
    IF a.value # b.value THEN a.value > b.value
    ELSE IF a.txid # b.txid THEN a.txid < b.txid
    ELSE a.idx < b.idx

RECURSIVE InsertAsc(_, _)
InsertAsc(n, s) ==
    IF s = <<>> THEN <<n>>
    ELSE IF LessAsc(Head(s), n) THEN <<Head(s)>> \o InsertAsc(n, Tail(s))
    ELSE <<n>> \o s

RECURSIVE sortByAsc(_)
sortByAsc(ns) ==
    IF ns = <<>> THEN <<>> ELSE InsertAsc(Head(ns), sortByAsc(Tail(ns)))

RECURSIVE InsertDesc(_, _)
InsertDesc(n, s) ==
    IF s = <<>> THEN <<n>>
    ELSE IF LessDesc(Head(s), n) THEN <<Head(s)>> \o InsertDesc(n, Tail(s))
    ELSE <<n>> \o s

RECURSIVE sortByDesc(_)
sortByDesc(ns) ==
    IF ns = <<>> THEN <<>> ELSE InsertDesc(Head(ns), sortByDesc(Tail(ns)))

---------------------------------------------------------------------------
(* The note selector: SelectNotesWithFeePolicy, the cascade *)

SelErr(e) == [err |-> e, selected |-> <<>>, fee |-> 0]

SelOk(sel, fee) == [err |-> "", selected |-> sel, fee |-> fee]

\* neededTotal with the fee left out of the total.
neededTotalWithoutFee(spendCount, outputs, amountZat, feePolicy) ==
    LET fee == Apply(feePolicy, RequiredFeeSend(spendCount, outputs))
    IN  IF ~fee.ok THEN [ok |-> FALSE, need |-> 0, fee |-> 0]
        ELSE [ok |-> TRUE, need |-> amountZat, fee |-> fee.v]

\* neededTotal: amount plus the policy fee of the given shape.
neededTotal(spendCount, outputs, amountZat, feePolicy) ==
    LET fee == Apply(feePolicy, RequiredFeeSend(spendCount, outputs))
    IN  IF ~fee.ok THEN [ok |-> FALSE, need |-> 0, fee |-> 0]
        ELSE LET need == addUint64(amountZat, fee.v)
             IN  IF ~need.ok THEN [ok |-> FALSE, need |-> 0, fee |-> 0]
                 ELSE [ok |-> TRUE, need |-> need.v, fee |-> fee.v]

\* The first index of ns (from index from on) whose note satisfies the test
\* of the loop, 0 when there is none.
RECURSIVE FirstWithValue(_, _, _, _)
FirstWithValue(ns, from, need, exact) ==
    IF from > Len(ns) THEN 0
    ELSE IF (exact /\ ns[from].value = need) \/ (~exact /\ ns[from].value >= need)
         THEN from
    ELSE FirstWithValue(ns, from + 1, need, exact)

\* The two-pointer loop of the 2-note exact match.
RECURSIVE TwoPointer(_, _, _, _)
TwoPointer(ns, i, j, need) ==
    IF ~(i < j) THEN [st |-> "none", i |-> 0, j |-> 0]
    ELSE LET sum == addUint64(ns[i].value, ns[j].value)
         IN  IF ~sum.ok THEN [st |-> "overflow", i |-> 0, j |-> 0]
             ELSE IF sum.v = need THEN [st |-> "found", i |-> i, j |-> j]
             ELSE IF sum.v < need THEN TwoPointer(ns, i + 1, j, need)
             ELSE TwoPointer(ns, i, j - 1, need)

\* A 2-note loop that keeps the first pair it finds.
RECURSIVE BestFitLoopFirstFound(_, _, _, _)
BestFitLoopFirstFound(ns, i, need, best) ==
    IF i > Len(ns) - 1 THEN best
    ELSE LET a == ns[i].value
         IN  IF a >= need THEN best
             ELSE LET bNeed == need - a
                      j     == FirstWithValue(ns, i + 1, bNeed, FALSE)
                  IN  IF j = 0 THEN BestFitLoopFirstFound(ns, i + 1, need, best)
                      ELSE LET sum == addUint64(a, ns[j].value)
                           IN  IF ~sum.ok
                               THEN [st |-> "overflow", sum |-> 0, i |-> 0, j |-> 0]
                               ELSE [st |-> "found", sum |-> sum.v, i |-> i, j |-> j]

\* The loop of the 2-note best fit; best is the best pair so far.
RECURSIVE BestFitLoop(_, _, _, _)
BestFitLoop(ns, i, need, best) ==
    IF i > Len(ns) - 1 THEN best
    ELSE LET a == ns[i].value
         IN  IF a >= need THEN best
             ELSE LET bNeed == need - a
                      j     == FirstWithValue(ns, i + 1, bNeed, FALSE)
                  IN  IF j = 0 THEN BestFitLoop(ns, i + 1, need, best)
                      ELSE LET sum == addUint64(a, ns[j].value)
                           IN  IF ~sum.ok
                               THEN [st |-> "overflow", sum |-> 0, i |-> 0, j |-> 0]
                               ELSE IF best.st # "found" \/ sum.v < best.sum
                                       \/ (sum.v = best.sum
                                           /\ (i < best.i \/ (i = best.i /\ j < best.j)))
                                    THEN BestFitLoop(ns, i + 1, need,
                                            [st |-> "found", sum |-> sum.v, i |-> i, j |-> j])
                                    ELSE BestFitLoop(ns, i + 1, need, best)

\* The greedy fallback without the exact no-change test.
RECURSIVE GreedyLoopWithChangeOnly(_, _, _, _, _, _)
GreedyLoopWithChangeOnly(nd, m, total, amountZat, outputCount, feePolicy) ==
    IF m > Len(nd) THEN SelErr("insufficient funds")
    ELSE LET t == addUint64(total, nd[m].value)
         IN  IF ~t.ok THEN SelErr("overflow")
             ELSE LET wc == neededTotal(m, outputCount + 1, amountZat, feePolicy)
                  IN  IF ~wc.ok THEN SelErr("overflow")
                      ELSE IF t.v >= wc.need THEN SelOk(SubSeq(nd, 1, m), wc.fee)
                      ELSE GreedyLoopWithChangeOnly(nd, m + 1, t.v, amountZat,
                                                    outputCount, feePolicy)

\* The greedy fallback over the notes in descending order; m notes are taken.
RECURSIVE GreedyLoop(_, _, _, _, _, _)
GreedyLoop(nd, m, total, amountZat, outputCount, feePolicy) ==
    IF m > Len(nd) THEN SelErr("insufficient funds")
    ELSE LET t == addUint64(total, nd[m].value)
         IN  IF ~t.ok THEN SelErr("overflow")
             ELSE LET nc == neededTotal(m, outputCount, amountZat, feePolicy)
                  IN  IF ~nc.ok THEN SelErr("overflow")
                      ELSE IF t.v = nc.need THEN SelOk(SubSeq(nd, 1, m), nc.fee)
                      ELSE LET wc == neededTotal(m, outputCount + 1, amountZat, feePolicy)
                           IN  IF ~wc.ok THEN SelErr("overflow")
                               ELSE IF t.v >= wc.need THEN SelOk(SubSeq(nd, 1, m), wc.fee)
                               ELSE GreedyLoop(nd, m + 1, t.v, amountZat, outputCount, feePolicy)

\* A greedy fallback that takes the notes smallest-first.
GreedyFallbackAscending(ns, amountZat, outputCount, feePolicy) ==
    GreedyLoop(sortByAsc(ns), 1, 0, amountZat, outputCount, feePolicy)

GreedyFallback(ns, amountZat, outputCount, feePolicy) ==
    GreedyLoop(sortByDesc(ns), 1, 0, amountZat, outputCount, feePolicy)

TwoNoteBestFit(ns, notesAsc, amountZat, outputCount, feePolicy) ==
    LET n == neededTotal(2, outputCount + 1, amountZat, feePolicy)
    IN  IF ~n.ok THEN SelErr("overflow")
        ELSE IF Len(notesAsc) >= 2
        THEN LET b == BestFitLoop(notesAsc, 1, n.need,
                                  [st |-> "none", sum |-> 0, i |-> 0, j |-> 0])
             IN  IF b.st = "overflow" THEN SelErr("overflow")
                 ELSE IF b.st = "found"
                      THEN SelOk(<<notesAsc[b.i], notesAsc[b.j]>>, n.fee)
                 ELSE GreedyFallback(ns, amountZat, outputCount, feePolicy)
        ELSE GreedyFallback(ns, amountZat, outputCount, feePolicy)

TwoNoteExact(ns, notesAsc, amountZat, outputCount, feePolicy) ==
    LET n == neededTotal(2, outputCount, amountZat, feePolicy)
    IN  IF ~n.ok THEN SelErr("overflow")
        ELSE IF Len(notesAsc) >= 2
        THEN LET r == TwoPointer(notesAsc, 1, Len(notesAsc), n.need)
             IN  IF r.st = "overflow" THEN SelErr("overflow")
                 ELSE IF r.st = "found"
                      THEN SelOk(<<notesAsc[r.i], notesAsc[r.j]>>, n.fee)
                 ELSE TwoNoteBestFit(ns, notesAsc, amountZat, outputCount, feePolicy)
        ELSE TwoNoteBestFit(ns, notesAsc, amountZat, outputCount, feePolicy)

\* The 1-note best fit left out: the cascade goes on to the 2-note stages.
OneNoteBestFitOmitted(ns, notesAsc, amountZat, outputCount, feePolicy) ==
    TwoNoteExact(ns, notesAsc, amountZat, outputCount, feePolicy)

\* The 1-note best fit tried only after the 2-note exact match.
OneNoteBestFitAfterPairExact(ns, notesAsc, amountZat, outputCount, feePolicy) ==
    LET p2 == neededTotal(2, outputCount, amountZat, feePolicy)
        r  == IF p2.ok /\ Len(notesAsc) >= 2
              THEN TwoPointer(notesAsc, 1, Len(notesAsc), p2.need)
              ELSE [st |-> "none", i |-> 0, j |-> 0]
        n  == neededTotal(1, outputCount + 1, amountZat, feePolicy)
    IN  IF r.st = "found" THEN SelOk(<<notesAsc[r.i], notesAsc[r.j]>>, p2.fee)
        ELSE IF ~n.ok THEN SelErr("overflow")
        ELSE LET k == FirstWithValue(notesAsc, 1, n.need, FALSE)
             IN  IF k # 0 THEN SelOk(<<notesAsc[k]>>, n.fee)
                 ELSE TwoNoteBestFit(ns, notesAsc, amountZat, outputCount, feePolicy)

\* The 1-note best fit priced without the change output.
OneNoteBestFitNoChangeFee(ns, notesAsc, amountZat, outputCount, feePolicy) ==
    LET n == neededTotal(1, outputCount, amountZat, feePolicy)
    IN  IF ~n.ok THEN SelErr("overflow")
        ELSE LET k == FirstWithValue(notesAsc, 1, n.need, FALSE)
             IN  IF k # 0 THEN SelOk(<<notesAsc[k]>>, n.fee)
                 ELSE TwoNoteExact(ns, notesAsc, amountZat, outputCount, feePolicy)

OneNoteBestFit(ns, notesAsc, amountZat, outputCount, feePolicy) ==
    LET n == neededTotal(1, outputCount + 1, amountZat, feePolicy)
    IN  IF ~n.ok THEN SelErr("overflow")
        ELSE LET k == FirstWithValue(notesAsc, 1, n.need, FALSE)
             IN  IF k # 0 THEN SelOk(<<notesAsc[k]>>, n.fee)
                 ELSE TwoNoteExact(ns, notesAsc, amountZat, outputCount, feePolicy)

\* The 1-note exact match left out: the cascade starts at the 1-note best fit.
OneNoteExactOmitted(ns, notesAsc, amountZat, outputCount, feePolicy) ==
    OneNoteBestFit(ns, notesAsc, amountZat, outputCount, feePolicy)

OneNoteExact(ns, notesAsc, amountZat, outputCount, feePolicy) ==
    LET n == neededTotal(1, outputCount, amountZat, feePolicy)
    IN  IF ~n.ok THEN SelErr("overflow")
        ELSE LET k == FirstWithValue(notesAsc, 1, n.need, TRUE)
             IN  IF k # 0 THEN SelOk(<<notesAsc[k]>>, n.fee)
                 ELSE OneNoteBestFit(ns, notesAsc, amountZat, outputCount, feePolicy)

SelectNotesWithFeePolicy(ns, amountZat, outputCount, feePolicy) ==
    IF Len(ns) = 0 THEN SelErr("insufficient funds")
    ELSE OneNoteExact(ns, sortByAsc(ns), amountZat, outputCount, feePolicy)

---------------------------------------------------------------------------
(* The historical greedy-descending variant of SelectNotesWithFeePolicy *)

\* The loop of the greedy variant accepting every total that reaches the
\* with-change target.
RECURSIVE GreedyVariantLoopAcceptsEqual(_, _, _, _, _, _)
GreedyVariantLoopAcceptsEqual(nd, m, total, amountZat, outputCount, feePolicy) ==
    IF m > Len(nd) THEN SelErr("insufficient funds")
    ELSE LET t == addUint64(total, nd[m].value)
         IN  IF ~t.ok THEN SelErr("overflow")
             ELSE LET wc == neededTotal(m, outputCount + 1, amountZat, feePolicy)
                  IN  IF ~wc.ok THEN SelErr("overflow")
                      ELSE IF t.v >= wc.need THEN SelOk(SubSeq(nd, 1, m), wc.fee)
                      ELSE GreedyVariantLoopAcceptsEqual(nd, m + 1, t.v, amountZat,
                                                         outputCount, feePolicy)

\* The loop of the greedy variant: a zero-change total is accepted only when
\* the fee without a change output equals the fee with one.
RECURSIVE GreedyVariantLoop(_, _, _, _, _, _)
GreedyVariantLoop(nd, m, total, amountZat, outputCount, feePolicy) ==
    IF m > Len(nd) THEN SelErr("insufficient funds")
    ELSE LET t == addUint64(total, nd[m].value)
         IN  IF ~t.ok THEN SelErr("overflow")
             ELSE LET wc == neededTotal(m, outputCount + 1, amountZat, feePolicy)
                  IN  IF ~wc.ok THEN SelErr("overflow")
                      ELSE IF t.v > wc.need THEN SelOk(SubSeq(nd, 1, m), wc.fee)
                      ELSE IF t.v = wc.need
                           THEN LET nc == Apply(feePolicy, RequiredFeeSend(m, outputCount))
                                IN  IF ~nc.ok THEN SelErr("overflow")
                                    ELSE IF nc.v = wc.fee
                                         THEN SelOk(SubSeq(nd, 1, m), wc.fee)
                                    ELSE GreedyVariantLoop(nd, m + 1, t.v, amountZat,
                                                           outputCount, feePolicy)
                      ELSE GreedyVariantLoop(nd, m + 1, t.v, amountZat,
                                             outputCount, feePolicy)

SelectNotesGreedyVariant(ns, amountZat, outputCount, feePolicy) ==
    GreedyVariantLoop(sortByDesc(ns), 1, 0, amountZat, outputCount, feePolicy)

---------------------------------------------------------------------------
(* The dust-change suppressor *)

\* SuppressDustChange without the test of the fee against the remainder.
SuppressDustChangeUncheckedFee(totalIn, totalOut, feeZat, minChangeZat) ==
    IF minChangeZat = 0 THEN [err |-> "", fee |-> feeZat, suppressed |-> FALSE]
    ELSE IF totalIn < totalOut THEN [err |-> "invalid totals", fee |-> 0, suppressed |-> FALSE]
    ELSE LET change == (totalIn - totalOut - feeZat) % (MaxUint64 + 1)
         IN  IF change = 0 \/ change >= minChangeZat
             THEN [err |-> "", fee |-> feeZat, suppressed |-> FALSE]
             ELSE LET newFee == addUint64(feeZat, change)
                  IN  IF ~newFee.ok
                      THEN [err |-> "overflow", fee |-> 0, suppressed |-> FALSE]
                      ELSE [err |-> "", fee |-> newFee.v, suppressed |-> TRUE]

\* SuppressDustChange with the threshold itself treated as dust.
SuppressDustChangeAtThreshold(totalIn, totalOut, feeZat, minChangeZat) ==
    IF minChangeZat = 0 THEN [err |-> "", fee |-> feeZat, suppressed |-> FALSE]
    ELSE IF totalIn < totalOut THEN [err |-> "invalid totals", fee |-> 0, suppressed |-> FALSE]
    ELSE LET rem == totalIn - totalOut
         IN  IF rem < feeZat THEN [err |-> "invalid totals", fee |-> 0, suppressed |-> FALSE]
             ELSE LET change == rem - feeZat
                  IN  IF change = 0 \/ change > minChangeZat
                      THEN [err |-> "", fee |-> feeZat, suppressed |-> FALSE]
                      ELSE LET newFee == addUint64(feeZat, change)
                           IN  IF ~newFee.ok
                               THEN [err |-> "overflow", fee |-> 0, suppressed |-> FALSE]
                               ELSE [err |-> "", fee |-> newFee.v, suppressed |-> TRUE]

SuppressDustChange(totalIn, totalOut, feeZat, minChangeZat) ==
    IF minChangeZat = 0 THEN [err |-> "", fee |-> feeZat, suppressed |-> FALSE]
    ELSE IF totalIn < totalOut THEN [err |-> "invalid totals", fee |-> 0, suppressed |-> FALSE]
    ELSE LET rem == totalIn - totalOut
         IN  IF rem < feeZat THEN [err |-> "invalid totals", fee |-> 0, suppressed |-> FALSE]
             ELSE LET change == rem - feeZat
                  IN  IF change = 0 \/ change >= minChangeZat
                      THEN [err |-> "", fee |-> feeZat, suppressed |-> FALSE]
                      ELSE LET newFee == addUint64(feeZat, change)
                           IN  IF ~newFee.ok
                               THEN [err |-> "overflow", fee |-> 0, suppressed |-> FALSE]
                               ELSE [err |-> "", fee |-> newFee.v, suppressed |-> TRUE]

---------------------------------------------------------------------------
(* The consolidation selector *)

\* prefix[t]: the checked sum of the t smallest notes (-1: the sum wrapped).
RECURSIVE PrefixSum(_, _)
PrefixSum(notesAsc, t) ==
    IF t = 0 THEN 0
    ELSE LET p == PrefixSum(notesAsc, t - 1)
         IN  IF p < 0 THEN -1
             ELSE LET v == addUint64(p, notesAsc[t].value)
                  IN  IF v.ok THEN v.v ELSE -1

\* suffix[t]: the checked sum of the t largest notes (-1: the sum wrapped).
RECURSIVE SuffixSum(_, _)
SuffixSum(notesAsc, t) ==
    IF t = 0 THEN 0
    ELSE LET p == SuffixSum(notesAsc, t - 1)
         IN  IF p < 0 THEN -1
             ELSE LET v == addUint64(p, notesAsc[Len(notesAsc) + 1 - t].value)
                  IN  IF v.ok THEN v.v ELSE -1

\* The inner loop trying only t = 0, the k largest notes.
BestTLargestNotesOnly(notesAsc, k, t, feeZat) ==
    LET total == addUint64(0, SuffixSum(notesAsc, k))
    IN  IF ~total.ok THEN -2
        ELSE IF total.v > feeZat THEN 0
        ELSE -1

\* The inner loop over t = k, k-1, ..., 0: the first t whose total exceeds the
\* fee, -1 when there is none, -2 when a total wrapped.
RECURSIVE BestT(_, _, _, _)
BestT(notesAsc, k, t, feeZat) ==
    IF t < 0 THEN -1
    ELSE LET total == addUint64(PrefixSum(notesAsc, t), SuffixSum(notesAsc, k - t))
         IN  IF ~total.ok THEN -2
             ELSE IF total.v > feeZat THEN t
             ELSE BestT(notesAsc, k, t - 1, feeZat)

\* An outer loop that always appends the k largest notes to the t smallest.
RECURSIVE ConsolidationLoopOverlapping(_, _, _)
ConsolidationLoopOverlapping(notesAsc, k, feePolicy) ==
    IF k < 2 THEN [code |-> "insufficient_balance", selected |-> <<>>, fee |-> 0]
    ELSE LET feeZat == Apply(feePolicy, RequiredFeeSend(k, 1))
         IN  IF ~feeZat.ok THEN [code |-> "error", selected |-> <<>>, fee |-> 0]
             ELSE LET bestT == BestT(notesAsc, k, k, feeZat.v)
                  IN  IF bestT = -2 THEN [code |-> "error", selected |-> <<>>, fee |-> 0]
                      ELSE IF bestT = -1
                           THEN ConsolidationLoopOverlapping(notesAsc, k - 1, feePolicy)
                      ELSE [code |-> "",
                            selected |-> SubSeq(notesAsc, 1, bestT)
                                         \o SubSeq(notesAsc, Len(notesAsc) - k + 1,
                                                   Len(notesAsc)),
                            fee |-> feeZat.v]

\* The outer loop over k = maxSpends, ..., 2.
RECURSIVE ConsolidationLoop(_, _, _)
ConsolidationLoop(notesAsc, k, feePolicy) ==
    IF k < 2 THEN [code |-> "insufficient_balance", selected |-> <<>>, fee |-> 0]
    ELSE LET feeZat == Apply(feePolicy, RequiredFeeSend(k, 1))
         IN  IF ~feeZat.ok THEN [code |-> "error", selected |-> <<>>, fee |-> 0]
             ELSE LET bestT == BestT(notesAsc, k, k, feeZat.v)
                  IN  IF bestT = -2 THEN [code |-> "error", selected |-> <<>>, fee |-> 0]
                      ELSE IF bestT = -1 THEN ConsolidationLoop(notesAsc, k - 1, feePolicy)
                      ELSE [code |-> "",
                            selected |-> SubSeq(notesAsc, 1, bestT)
                                         \o SubSeq(notesAsc, Len(notesAsc) - (k - bestT) + 1,
                                                   Len(notesAsc)),
                            fee |-> feeZat.v]

selectNotesForConsolidation(ns, maxSpends, feePolicy) ==
    LET m1 == IF maxSpends <= 0 THEN DefaultMaxSpends ELSE maxSpends
        m  == IF m1 > Len(ns) THEN Len(ns) ELSE m1
    IN  IF m < 2 THEN [code |-> "invalid_request", selected |-> <<>>, fee |-> 0]
        ELSE LET notesAsc == sortByAsc(ns)
             IN  IF PrefixSum(notesAsc, Len(notesAsc)) < 0
                 THEN [code |-> "error", selected |-> <<>>, fee |-> 0]
                 ELSE ConsolidationLoop(notesAsc, m, feePolicy)

---------------------------------------------------------------------------
(* The plan operations of pkg/txbuild *)

NoPlan == [Kind |-> "none"]

Fail(code) == [code |-> code, plan |-> NoPlan]

Emit(plan) == [code |-> "", plan |-> plan]

\* The loop over cfg.Outputs: the checked sum of the amounts, -1 when an
\* amount is zero or unparsable, -2 when the sum wraps.
RECURSIVE TotalOutLoop(_, _, _)
TotalOutLoop(outputs, i, totalOut) ==
    IF i > Len(outputs) THEN totalOut
    ELSE IF outputs[i] = 0 THEN -1
    ELSE LET t == addUint64(totalOut, outputs[i])
         IN  IF ~t.ok THEN -2 ELSE TotalOutLoop(outputs, i + 1, t.v)

\* The loop summing the selected notes, -1 when the sum wraps.
RECURSIVE TotalInLoop(_, _, _)
TotalInLoop(selected, i, totalIn) ==
    IF i > Len(selected) THEN totalIn
    ELSE LET t == addUint64(totalIn, selected[i].value)
         IN  IF ~t.ok THEN -1 ELSE TotalInLoop(selected, i + 1, t.v)

\* cfg.ExpiryOffset after the default is applied.
EffectiveExpiryOffset(c) ==
    IF c.ExpiryOffset = 0 THEN DefaultExpiryOffset ELSE c.ExpiryOffset

\* expiryHeight := anchorHeight + cfg.ExpiryOffset in uint32; -1 stands for
\* the "expiry height overflow" error.
ExpiryHeight(anchorHeight, expiryOffset) ==
    LET e == (anchorHeight + expiryOffset) % (MaxUint32 + 1)
    IN  IF e < anchorHeight THEN -1 ELSE e

\* cfg.MaxSpends after the default is applied.
EffectiveMaxSpends(c) ==
    IF c.MaxSpends <= 0 THEN DefaultMaxSpends ELSE c.MaxSpends

FeePolicyOf(c) ==
    [Multiplier |-> IF c.FeeMultiplier = 0 THEN 1 ELSE c.FeeMultiplier,
     AddZat |-> c.FeeAddZat]

\* Node mode, after selection: the action lookup in the orchard index, the
\* witness of the selected positions, the expiry height and the plan.
AssembleNode(kind, c, w, selected, feeZat, outputs) ==
    IF w.collab = "no_action" THEN Fail("error")
    ELSE IF w.collab = "witness_mismatch" THEN Fail("error")
    ELSE LET anchorHeight == w.Height
             expiryHeight == ExpiryHeight(anchorHeight, EffectiveExpiryOffset(c))
         IN  IF expiryHeight < 0 THEN Fail("error")
             ELSE Emit([Kind |-> kind, AnchorHeight |-> anchorHeight,
                        ExpiryHeight |-> expiryHeight, Outputs |-> outputs,
                        FeeZat |-> feeZat, Notes |-> selected])

\* Indexer mode, after selection: the action lookup by block, the witness
\* response and its checks, the expiry height and the plan.
AssembleScan(kind, c, w, selected, feeZat, outputs) ==
    IF w.collab = "no_action" THEN Fail("error")
    ELSE IF w.collab = "witness_mismatch" THEN Fail("error")
    ELSE IF w.WitAnchorHeight < 0 \/ w.WitAnchorHeight > MaxUint32 THEN Fail("error")
    ELSE LET expiryHeight == ExpiryHeight(w.Height, EffectiveExpiryOffset(c))
         IN  IF expiryHeight < 0 THEN Fail("error")
             ELSE Emit([Kind |-> kind, AnchorHeight |-> w.WitAnchorHeight,
                        ExpiryHeight |-> expiryHeight, Outputs |-> outputs,
                        FeeZat |-> feeZat, Notes |-> selected])

\* The last steps of Plan and planWithScan: the witness and the plan, in
\* the mode the request names.
Assemble(kind, c, w, selected, feeZat, outputs) ==
    IF c.Scan THEN AssembleScan(kind, c, w, selected, feeZat, outputs)
    ELSE AssembleNode(kind, c, w, selected, feeZat, outputs)

\* After SuppressDustChange returned d.
PlanWithDust(c, w, selected, d) ==
    IF d.err # "" THEN Fail("error")
    ELSE Assemble(c.Kind, c, w, selected, d.fee, c.Outputs)

\* After the selected notes were summed to totalIn.
PlanWithTotalIn(c, w, sel, totalOut, totalIn) ==
    IF totalIn < 0 THEN Fail("error")
    ELSE PlanWithDust(c, w, sel.selected,
                      SuppressDustChange(totalIn, totalOut, sel.fee, c.MinChangeZat))

\* After SelectNotesWithFeePolicy returned sel.
PlanWithSelection(c, w, sel, totalOut) ==
    IF sel.err # "" THEN Fail("insufficient_balance")
    ELSE PlanWithTotalIn(c, w, sel, totalOut, TotalInLoop(sel.selected, 1, 0))

\* Selection and everything after it, the same steps in Plan and in
\* planWithScan.
planSelectAndAssemble(c, ns, w, totalOut) ==
    IF Len(ns) = 0 THEN Fail("insufficient_balance")
    ELSE PlanWithSelection(c, w,
             SelectNotesWithFeePolicy(ns, totalOut, Len(c.Outputs), FeePolicyOf(c)),
             totalOut)

planWithScan(c, ns, w, totalOut) == planSelectAndAssemble(c, ns, w, totalOut)

\* After the outputs were validated and summed to totalOut.
PlanWithTotalOut(c, ns, w, totalOut) ==
    IF totalOut < 0 THEN Fail("invalid_request")
    ELSE IF w.Height < 0 \/ w.Height > MaxUint32 THEN Fail("error")
    ELSE IF c.Scan THEN planWithScan(c, ns, w, totalOut)
    ELSE planSelectAndAssemble(c, ns, w, totalOut)

Plan(c, ns, w) ==
    IF Len(c.Outputs) = 0 THEN Fail("invalid_request")
    ELSE PlanWithTotalOut(c, ns, w, TotalOutLoop(c.Outputs, 1, 0))

\* The sweep priced as a one-spend transaction whatever the number of notes.
SelectForSweepFlatFee(c, ns) ==
    IF Len(ns) = 0 THEN [code |-> "insufficient_balance", amount |-> 0, fee |-> 0]
    ELSE LET totalIn == TotalInLoop(ns, 1, 0)
         IN  IF totalIn < 0 THEN [code |-> "error", amount |-> 0, fee |-> 0]
             ELSE LET feeZat == Apply(FeePolicyOf(c), RequiredFeeSend(1, 1))
                  IN  IF ~feeZat.ok THEN [code |-> "error", amount |-> 0, fee |-> 0]
                      ELSE IF totalIn <= feeZat.v
                           THEN [code |-> "insufficient_balance", amount |-> 0, fee |-> 0]
                           ELSE [code |-> "", amount |-> totalIn - feeZat.v, fee |-> feeZat.v]

\* The part PlanSweep and planSweepWithScan share: every candidate is spent.
SelectForSweep(c, ns) ==
    IF Len(ns) = 0 THEN [code |-> "insufficient_balance", amount |-> 0, fee |-> 0]
    ELSE LET totalIn == TotalInLoop(ns, 1, 0)
         IN  IF totalIn < 0 THEN [code |-> "error", amount |-> 0, fee |-> 0]
             ELSE LET feeZat == Apply(FeePolicyOf(c), RequiredFeeSend(Len(ns), 1))
                  IN  IF ~feeZat.ok THEN [code |-> "error", amount |-> 0, fee |-> 0]
                      ELSE IF totalIn <= feeZat.v
                           THEN [code |-> "insufficient_balance", amount |-> 0, fee |-> 0]
                           ELSE [code |-> "", amount |-> totalIn - feeZat.v, fee |-> feeZat.v]

planSweepWithScan(c, ns, w) ==
    LET s == SelectForSweep(c, ns)
    IN  IF s.code # "" THEN Fail(s.code)
        ELSE AssembleScan("sweep", c, w, ns, s.fee, <<s.amount>>)

PlanSweep(c, ns, w) ==
    IF w.Height < 0 \/ w.Height > MaxUint32 THEN Fail("error")
    ELSE IF c.Scan THEN planSweepWithScan(c, ns, w)
    ELSE LET s == SelectForSweep(c, ns)
         IN  IF s.code # "" THEN Fail(s.code)
             ELSE AssembleNode("sweep", c, w, ns, s.fee, <<s.amount>>)

\* The part PlanConsolidate and planConsolidateWithScan share.
SelectForConsolidate(c, ns) ==
    IF Len(ns) < 2 THEN [code |-> "invalid_request", selected |-> <<>>, amount |-> 0, fee |-> 0]
    ELSE LET sel == selectNotesForConsolidation(ns, EffectiveMaxSpends(c), FeePolicyOf(c))
         IN  IF sel.code # ""
             THEN [code |-> sel.code, selected |-> <<>>, amount |-> 0, fee |-> 0]
             ELSE LET totalIn == TotalInLoop(sel.selected, 1, 0)
                  IN  IF totalIn < 0
                      THEN [code |-> "error", selected |-> <<>>, amount |-> 0, fee |-> 0]
                      ELSE IF totalIn <= sel.fee
                           THEN [code |-> "insufficient_balance", selected |-> <<>>,
                                 amount |-> 0, fee |-> 0]
                           ELSE [code |-> "", selected |-> sel.selected,
                                 amount |-> totalIn - sel.fee, fee |-> sel.fee]

planConsolidateWithScan(c, ns, w) ==
    LET s == SelectForConsolidate(c, ns)
    IN  IF s.code # "" THEN Fail(s.code)
        ELSE AssembleScan("rebalance", c, w, s.selected, s.fee, <<s.amount>>)

PlanConsolidate(c, ns, w) ==
    IF w.Height < 0 \/ w.Height > MaxUint32 THEN Fail("error")
    ELSE IF c.Scan THEN planConsolidateWithScan(c, ns, w)
    ELSE LET s == SelectForConsolidate(c, ns)
         IN  IF s.code # "" THEN Fail(s.code)
             ELSE AssembleNode("rebalance", c, w, s.selected, s.fee, <<s.amount>>)

---------------------------------------------------------------------------
(* Candidate enumeration through the node: listUnspentOrchardNotes *)

\* strings.ToLower(strings.TrimSpace(s)) on the strings of the model.
LowerTrim(s) ==
    CASE s = " Orchard " -> "orchard"
      [] s = "Ab" -> "ab"
      [] s = " " -> ""
      [] OTHER -> s

\* The loop over the z_listunspent entries; entry.Account = -1 stands for an
\* absent account, entry.Zat = -1 for an amount parseZECToZat rejects.
RECURSIVE ListUnspentLoop(_, _, _, _)
ListUnspentLoop(raw, i, account, acc) ==
    IF i > Len(raw) THEN [err |-> "", notes |-> acc]
    ELSE LET n == raw[i]
         IN  IF LowerTrim(n.Pool) # "orchard"
             THEN ListUnspentLoop(raw, i + 1, account, acc)
             ELSE IF n.Account # -1 /\ n.Account # account
             THEN ListUnspentLoop(raw, i + 1, account, acc)
             ELSE IF LowerTrim(n.TxID) = ""
             THEN ListUnspentLoop(raw, i + 1, account, acc)
             ELSE IF n.Zat < 0 THEN [err |-> "error", notes |-> <<>>]
             ELSE ListUnspentLoop(raw, i + 1, account,
                      Append(acc, [txid |-> LowerTrim(n.TxID), idx |-> n.OutIndex,
                                   value |-> n.Zat]))

listUnspentOrchardNotes(raw, account) == ListUnspentLoop(raw, 1, account, <<>>)

---------------------------------------------------------------------------
(* The min_note filter and the memo of an output *)

\* FilterNotesMinValue: the notes worth at least minNoteZat, in order.
FilterNotesMinValue(ns, minNoteZat) ==
    IF minNoteZat = 0 THEN ns
    ELSE SelectSeq(ns, LAMBDA n : n.value >= minNoteZat)

\* A memo_hex string, by what matters of it: its number of characters once
\* trimmed, whether these are all hex digits, whether blanks surround them.
\* strings.TrimSpace removes the blanks.
TrimMemo(m) == [m EXCEPT !.pad = FALSE]

\* The memo_hex of the outputs of the emitted plan: the request's, trimmed.
PlanMemos(c) == [i \in 1..Len(c.Memos) |-> TrimMemo(c.Memos[i])]

---------------------------------------------------------------------------
(* Indexer mode: the actions and the witness of the selected notes *)

\* A string field of a collaborator's answer, by what matters of it: len, the
\* number of its characters once trimmed; hex, whether its first
\* min(len, EncCiphertextHexLen) characters are all hex digits (for the
\* fields of 64 characters: whether all are); pad, whether blanks surround it.
\* strings.ToLower(strings.TrimSpace(s)) removes the blanks.
NormalizeHex(s) == [s EXCEPT !.pad = FALSE]

is32ByteHex(s) == ~s.pad /\ s.len = HexLen32 /\ s.hex

\* act.EncCiphertext[:104] when the string has at least 104 characters.
TruncateEnc(s) ==
    IF s.len >= EncCiphertextHexLen THEN [s EXCEPT !.len = EncCiphertextHexLen] ELSE s

\* orchardActionForNote on the block the node returned: a.found tells whether
\* the transaction and the action index exist in it.
orchardActionForNote(a) ==
    IF ~a.found THEN [err |-> "error"]
    ELSE LET act == [Nullifier |-> NormalizeHex(a.Nullifier),
                     CMX |-> NormalizeHex(a.CMX),
                     EphemeralKey |-> NormalizeHex(a.EphemeralKey),
                     EncCiphertext |-> TruncateEnc(NormalizeHex(a.EncCiphertext))]
         IN  IF ~is32ByteHex(act.Nullifier) \/ ~is32ByteHex(act.CMX)
                \/ ~is32ByteHex(act.EphemeralKey)
             THEN [err |-> "error"]
             ELSE IF act.EncCiphertext.len # EncCiphertextHexLen THEN [err |-> "error"]
             ELSE IF ~act.EncCiphertext.hex THEN [err |-> "error"]
             ELSE [err |-> "", act |-> act]

\* The loop over the selected notes: the first failing action lookup (0 when
\* there is none).
RECURSIVE FirstBadAction(_, _)
FirstBadAction(actions, i) ==
    IF i > Len(actions) THEN 0
    ELSE IF orchardActionForNote(actions[i]).err # "" THEN i
    ELSE FirstBadAction(actions, i + 1)

\* A lookup that ignores the position and takes the last listed path.
LastPathForAnyPosition(paths, j, position) == j

\* pathByPos: the last path the response lists for a position (0: none).
RECURSIVE LastPathFor(_, _, _)
LastPathFor(paths, j, position) ==
    IF j = 0 THEN 0
    ELSE IF paths[j].Position = position THEN j
    ELSE LastPathFor(paths, j - 1, position)

\* planWithScan from the loop over the selected notes to the witness paths:
\* positions are the positions of the selected notes, actions the node's
\* answer for each, wit the indexer's witness response.
planWithScanWitness(positions, actions, wit) ==
    IF FirstBadAction(actions, 1) # 0 THEN Fail("error")
    ELSE IF wit.Root = " " \/ wit.Root = "" \/ Len(wit.Paths) # Len(positions)
    THEN Fail("error")
    ELSE IF wit.AnchorHeight < 0 \/ wit.AnchorHeight > MaxUint32 THEN Fail("error")
    ELSE IF \E i \in 1..Len(positions) :
               \/ LastPathFor(wit.Paths, Len(wit.Paths), positions[i]) = 0
               \/ wit.Paths[LastPathFor(wit.Paths, Len(wit.Paths), positions[i])].AuthPath.n
                    # PathDepth
    THEN Fail("error")
    ELSE Emit([AnchorHeight |-> wit.AnchorHeight,
               Notes |-> [i \in 1..Len(positions) |->
                   LET act == orchardActionForNote(actions[i]).act
                   IN  [Position |-> positions[i],
                        Path |-> wit.Paths[LastPathFor(wit.Paths, Len(wit.Paths),
                                                       positions[i])].AuthPath,
                        ActionNullifier |-> act.Nullifier,
                        CMX |-> act.CMX,
                        EphemeralKey |-> act.EphemeralKey,
                        EncCiphertext |-> act.EncCiphertext]]])

---------------------------------------------------------------------------
(* Indexer mode: listing the wallet's notes *)

\* int64(^uint64(0)>>1)
MaxInt64 == MaxUint64 \div 2

\* An indexer note: PendingSpentTxID and Position are pointers, here a
\* sequence of no element (nil) or one.
\* The filter with the confirmations test left out.
ScanNoteSkippedIgnoringConfirmations(n, tipHeight, minConf) ==
    \/ Len(n.PendingSpentTxID) = 1 /\ n.PendingSpentTxID[1] \notin {"", " "}
    \/ Len(n.Position) = 0 \/ n.Position[1] < 0
    \/ n.Height < 0
    \/ tipHeight < n.Height
    \/ n.ActionIndex < 0
    \/ n.ValueZat <= 0

\* The tests of listSpendableNotesFromScan that skip a note.
ScanNoteSkipped(n, tipHeight, minConf) ==
    \/ Len(n.PendingSpentTxID) = 1 /\ n.PendingSpentTxID[1] \notin {"", " "}
    \/ Len(n.Position) = 0 \/ n.Position[1] < 0
    \/ n.Height < 0
    \/ tipHeight < n.Height
    \/ tipHeight - n.Height + 1 < minConf
    \/ n.ActionIndex < 0
    \/ n.ValueZat <= 0

\* The loop of listSpendableNotesFromScan over the notes the indexer listed.
RECURSIVE ScanNotesLoop(_, _, _, _, _)
ScanNotesLoop(raw, i, tipHeight, minConf, acc) ==
    IF i > Len(raw) THEN [err |-> "", notes |-> acc]
    ELSE IF ScanNoteSkipped(raw[i], tipHeight, minConf)
    THEN ScanNotesLoop(raw, i + 1, tipHeight, minConf, acc)
    ELSE IF raw[i].ValueZat > MaxInt64 THEN [err |-> "error", notes |-> <<>>]
    ELSE IF raw[i].Position[1] > MaxUint32 THEN [err |-> "error", notes |-> <<>>]
    ELSE ScanNotesLoop(raw, i + 1, tipHeight, minConf,
                       Append(acc, [TxID |-> raw[i].TxID,
                                    ActionIndex |-> raw[i].ActionIndex,
                                    Height |-> raw[i].Height,
                                    Position |-> raw[i].Position[1],
                                    ValueZat |-> raw[i].ValueZat]))

\* The listing before its first request: cursor 0 is the empty cursor.
ListingStart ==
    [code |-> "", cursor |-> 0, seen |-> {}, raw |-> <<>>, notes |-> <<>>,
     finished |-> FALSE]

\* A listing that asks again when a cursor comes back.
OnSeenCursorRetry(st) == st

\* The indexer returned a cursor already seen: the listing fails.
OnSeenCursor(st) ==
    [st EXCEPT !.code = "cursor_loop", !.raw = <<>>, !.finished = TRUE]

\* One page of the listing: the page's notes are appended; an empty
\* next_cursor ends the listing and the notes are filtered, a cursor already
\* seen fails it, any other cursor is requested next.
ListingStep(st, page, tipHeight, minConf) ==
    IF page.next = 0
    THEN LET r == ScanNotesLoop(st.raw \o page.notes, 1, tipHeight, minConf, <<>>)
         IN  [st EXCEPT !.code = r.err, !.raw = st.raw \o page.notes,
                        !.notes = r.notes, !.finished = TRUE]
    ELSE IF page.next \in st.seen THEN OnSeenCursor(st)
    ELSE [st EXCEPT !.raw = st.raw \o page.notes,
                    !.seen = st.seen \cup {page.next},
                    !.cursor = page.next]

---------------------------------------------------------------------------
(* Strings as sequences of characters; the caller's Outputs slice *)

\* strings.TrimSpace on a sequence of one-character strings.
RECURSIVE TrimLeft(_)
TrimLeft(s) == IF Len(s) > 0 /\ Head(s) = " " THEN TrimLeft(Tail(s)) ELSE s

RECURSIVE TrimRight(_)
TrimRight(s) ==
    IF Len(s) > 0 /\ s[Len(s)] = " " THEN TrimRight(SubSeq(s, 1, Len(s) - 1)) ELSE s

TrimSpace(s) == TrimRight(TrimLeft(s))

Digits == {"0", "1", "2", "3", "4", "5", "6", "7", "8", "9"}

DigitValue(c) ==
    CASE c = "0" -> 0 [] c = "1" -> 1 [] c = "2" -> 2 [] c = "3" -> 3 [] c = "4" -> 4
      [] c = "5" -> 5 [] c = "6" -> 6 [] c = "7" -> 7 [] c = "8" -> 8 [] c = "9" -> 9

\* strconv.ParseUint(s, 10, w) for a word of maximum max: a syntax error on
\* an empty string or a character that is no digit, a range error when the
\* value exceeds max.
RECURSIVE ParseUintLoop(_, _, _, _)
ParseUintLoop(s, i, acc, max) ==
    IF i > Len(s) THEN [ok |-> TRUE, v |-> acc]
    ELSE IF s[i] \notin Digits THEN [ok |-> FALSE, v |-> 0]
    ELSE IF acc > (max - DigitValue(s[i])) \div 10 THEN [ok |-> FALSE, v |-> 0]
    ELSE ParseUintLoop(s, i + 1, 10 * acc + DigitValue(s[i]), max)

ParseUint(s, max) ==
    IF Len(s) = 0 THEN [ok |-> FALSE, v |-> 0] ELSE ParseUintLoop(s, 1, 0, max)

ParseUint64Decimal(s) ==
    IF Len(TrimSpace(s)) = 0 THEN [ok |-> FALSE, v |-> 0]
    ELSE ParseUint(TrimSpace(s), MaxUint64)

\* The outputs loop of Plan on the slice the caller passed: outputs is the
\* backing array, which cfg.Outputs shares with the caller; every element
\* the loop reaches is overwritten with its trimmed fields before it is
\* checked. amounts collects the parsed amounts.
RECURSIVE PlanOutputsLoop(_, _, _, _)
PlanOutputsLoop(outputs, i, totalOut, amounts) ==
    IF i > Len(outputs)
    THEN [code |-> "", outputs |-> outputs, totalOut |-> totalOut, amounts |-> amounts]
    ELSE LET o == [ToAddress |-> TrimSpace(outputs[i].ToAddress),
                   AmountZat |-> TrimSpace(outputs[i].AmountZat),
                   MemoHex |-> TrimSpace(outputs[i].MemoHex)]
             written == [outputs EXCEPT ![i] = o]
             failed == [code |-> "invalid_request", outputs |-> written,
                        totalOut |-> 0, amounts |-> <<>>]
             amt == ParseUint64Decimal(o.AmountZat)
         IN  IF Len(o.ToAddress) = 0 THEN failed
             ELSE IF Len(o.AmountZat) = 0 THEN failed
             ELSE IF ~amt.ok \/ amt.v = 0 THEN failed
             ELSE IF ~addUint64(totalOut, amt.v).ok THEN failed
             ELSE PlanOutputsLoop(written, i + 1, addUint64(totalOut, amt.v).v,
                                  Append(amounts, amt.v))

\* Plan after its outputs loop succeeded: the rest of the operation on the
\* parsed amounts.
PlanAfterOutputs(c, ns, w, r) ==
    [out |-> PlanWithTotalOut([c EXCEPT !.Outputs = r.amounts], ns, w, r.totalOut),
     outputs |-> r.outputs]

\* Plan called with a config whose Outputs slice has the backing array
\* outputs: the result and the backing array after the call.
PlanOnCallerOutputs(c, ns, w, outputs) ==
    IF Len(outputs) = 0 THEN [out |-> Fail("invalid_request"), outputs |-> outputs]
    ELSE IF PlanOutputsLoop(outputs, 1, 0, <<>>).code # ""
    THEN [out |-> Fail(PlanOutputsLoop(outputs, 1, 0, <<>>).code),
          outputs |-> PlanOutputsLoop(outputs, 1, 0, <<>>).outputs]
    ELSE PlanAfterOutputs(c, ns, w, PlanOutputsLoop(outputs, 1, 0, <<>>))

---------------------------------------------------------------------------
(* ParseZECToZat *)

\* The index of the first "." of s from i on, 0 when there is none.
RECURSIVE IndexOfDot(_, _)
IndexOfDot(s, i) ==
    IF i > Len(s) THEN 0 ELSE IF s[i] = "." THEN i ELSE IndexOfDot(s, i + 1)

\* strings.Cut(s, "."): the parts before and after the first ".".
CutWhole(s) == IF IndexOfDot(s, 1) = 0 THEN s ELSE SubSeq(s, 1, IndexOfDot(s, 1) - 1)

CutFrac(s) == IF IndexOfDot(s, 1) = 0 THEN <<>> ELSE SubSeq(s, IndexOfDot(s, 1) + 1, Len(s))

\* frac + strings.Repeat("0", 8 - len(frac))
PadFrac(frac) == frac \o [i \in 1..(FracDigits - Len(frac)) |-> "0"]

\* The last steps of ParseZECToZat: w and f are the parsed parts; the sum
\* w*100_000_000 + f is computed in the word, modulo MaxZatWord + 1.
ZatFromParts(w, f) ==
    IF ~w.ok \/ ~f.ok THEN [ok |-> FALSE, v |-> 0]
    ELSE IF w.v > MaxZatWord \div ZatPerZEC THEN [ok |-> FALSE, v |-> 0]
    ELSE IF f.v > MaxZatWord - w.v * ZatPerZEC
         THEN [ok |-> TRUE, v |-> f.v - (MaxZatWord - w.v * ZatPerZEC) - 1]
         ELSE [ok |-> TRUE, v |-> w.v * ZatPerZEC + f.v]

\* ParseZECToZat after the trim, the emptiness test and the sign test.
ParseZECUnsigned(s) ==
    IF Len(CutFrac(s)) > FracDigits THEN [ok |-> FALSE, v |-> 0]
    ELSE ZatFromParts(ParseUint(IF Len(CutWhole(s)) = 0 THEN <<"0">> ELSE CutWhole(s),
                                MaxZatWord),
                      ParseUint(PadFrac(CutFrac(s)), MaxZatWord))

ParseZECToZat(s) ==
    IF Len(TrimSpace(s)) = 0 THEN [ok |-> FALSE, v |-> 0]
    ELSE IF Head(TrimSpace(s)) = "-" THEN [ok |-> FALSE, v |-> 0]
    ELSE ParseZECUnsigned(TrimSpace(s))

---------------------------------------------------------------------------
(* A string of the Outputs array in memory: two words, pointer and length *)

\* The byte at index k of the memory the string was allocated in: buf is the
\* string's own bytes, after the byte that follows them.
ByteAt(m, k) == IF k <= Len(m.buf) THEN m.buf[k] ELSE m.after

\* The characters a string header (ptr, len) denotes.
BytesOf(m, h) == [k \in 1..h.len |-> ByteAt(m, h.ptr + k)]

RECURSIVE LeadingBlanks(_)
LeadingBlanks(s) == IF Len(s) > 0 /\ Head(s) = " " THEN 1 + LeadingBlanks(Tail(s)) ELSE 0

\* strings.TrimSpace returns a header into the same bytes.
TrimHeader(m, h) ==
    [ptr |-> h.ptr + LeadingBlanks(BytesOf(m, h)), len |-> Len(TrimSpace(BytesOf(m, h)))]

\* Plan from the checks of the trimmed amount on, for a request of one
\* output whose amount_zat reads as the characters s.
PlanWithAmountString(c, ns, w, s) ==
    IF Len(s) = 0 THEN Fail("invalid_request")
    ELSE IF ~ParseUint64Decimal(s).ok \/ ParseUint64Decimal(s).v = 0
    THEN Fail("invalid_request")
    ELSE PlanWithTotalOut([c EXCEPT !.Outputs = <<ParseUint64Decimal(s).v>>], ns, w,
                          ParseUint64Decimal(s).v)

---------------------------------------------------------------------------
(* Commitment tree and witness *)

\* The combine function H, abstract: a node is written as a sequence of
\* symbols and H(l, r) is the fully parenthesised pair, so that distinct
\* pairs give distinct nodes.
H(l, r) == <<"(">> \o l \o <<",">> \o r \o <<")">>

\* The empty-subtree roots: E[0] the empty leaf, E[i+1] = H(E[i], E[i]).
RECURSIVE EmptyRoot(_)
EmptyRoot(level) ==
    IF level = 0 THEN <<"e">> ELSE H(EmptyRoot(level - 1), EmptyRoot(level - 1))

\* The nodes of a level, 0-indexed: nodes[j + 1] is the node of index j; an
\* index past the last materialised node is an empty subtree.
NodeAt(nodes, level, j) == IF j < Len(nodes) THEN nodes[j + 1] ELSE EmptyRoot(level)

\* The sibling rule read to the letter: a sibling subtree that is not fully
\* populated counts as empty.
SiblingAtOnlyWhenFull(nodes, level, j, n) ==
    LET sib == IF j % 2 = 0 THEN j + 1 ELSE j - 1
    IN  IF (sib + 1) * (2 ^ level) <= n THEN nodes[sib + 1] ELSE EmptyRoot(level)

\* The sibling of the node of index j of a level: the node of index j XOR 1,
\* materialised from the leaves under it and padded with empty subtrees. n
\* is the number of leaves.
SiblingAt(nodes, level, j, n) ==
    NodeAt(nodes, level, IF j % 2 = 0 THEN j + 1 ELSE j - 1)

\* The nodes of the level above.
ParentLevel(nodes, level) ==
    [k \in 1..((Len(nodes) + 1) \div 2) |->
        H(NodeAt(nodes, level, 2 * (k - 1)), NodeAt(nodes, level, 2 * (k - 1) + 1))]

\* The pass up the tree for one position: the siblings from the level on,
\* level 0 first.
RECURSIVE PathFrom(_, _, _, _)
PathFrom(nodes, level, j, n) ==
    IF level = TreeDepth THEN <<>>
    ELSE <<SiblingAt(nodes, level, j, n)>>
         \o PathFrom(ParentLevel(nodes, level), level + 1, j \div 2, n)

RECURSIVE RootFrom(_, _)
RootFrom(nodes, level) ==
    IF level = TreeDepth THEN nodes[1] ELSE RootFrom(ParentLevel(nodes, level), level + 1)

\* witness(leaves, positions): the root and one path per position, in the
\* order of positions.
OrchardWitness(leaves, positions) ==
    IF Len(leaves) = 0 THEN [err |-> "empty_tree"]
    ELSE IF \E i \in 1..Len(positions) : positions[i] >= Len(leaves)
    THEN [err |-> "position_out_of_range"]
    ELSE [err |-> "",
          Root |-> RootFrom(leaves, 0),
          Paths |-> [i \in 1..Len(positions) |->
                        [Position |-> positions[i],
                         AuthPath |-> PathFrom(leaves, 0, positions[i], Len(leaves))]]]

\* Plan in node mode from the witness call to the paths of the plan notes:
\* the anchor of the plan is the root the witness returned.
PlanNodeWitness(leaves, positions) ==
    LET wit == OrchardWitness(leaves, positions)
    IN  IF wit.err # "" THEN Fail("error")
        ELSE IF Len(wit.Paths) # Len(positions) THEN Fail("error")
        ELSE IF \E i \in 1..Len(positions) : wit.Paths[i].Position # positions[i]
        THEN Fail("error")
        ELSE Emit([Anchor |-> wit.Root,
                   Notes |-> [i \in 1..Len(positions) |->
                                 [Position |-> positions[i], CMX |-> leaves[positions[i] + 1],
                                  Path |-> wit.Paths[i].AuthPath]]])

---------------------------------------------------------------------------
(* Input domains *)

\* The i-th candidate of a list: outpoints are pairwise distinct and their
\* (txid, action index) order differs from the list order.
NoteAt(i, v) == [txid |-> ((2 * i) % 3) + 1, idx |-> i \div 3, value |-> v]

NoteLists(maxLen, values) ==
    UNION { { [i \in 1..n |-> NoteAt(i, vs[i])] : vs \in [1..n -> values] } : n \in 0..maxLen }

NoteValues == {1000, 4000, 10000, 25000, 60000, 70000, 75000, 80000}

Amounts == {60000, MaxUint64 - 12000}

Policies == { [Multiplier |-> 0, AddZat |-> 0], [Multiplier |-> 2, AddZat |-> 0] }

VariantValues == {1000, 25000, 70000, 75000}

NoOut == [err |-> "not run"]

---------------------------------------------------------------------------
(* SpecSelect: the cascade applied to every input of the domain *)

InitSelect ==
    /\ pc = "call"
    /\ op = "select"
    /\ notes \in NoteLists(MaxNotes, NoteValues)
    /\ cfg \in [amountZat : Amounts, outputCount : 1..MaxOutputs, feePolicy : Policies]
    /\ world = <<>>
    /\ out = NoOut

CallSelectNotes ==
    /\ pc = "call"
    /\ op = "select"
    /\ out' = SelectNotesWithFeePolicy(notes, cfg.amountZat, cfg.outputCount, cfg.feePolicy)
    /\ pc' = "done"
    /\ UNCHANGED <<op, cfg, notes, world>>

NextSelect == CallSelectNotes

SpecSelect == InitSelect /\ [][NextSelect]_vars

---------------------------------------------------------------------------
(* SpecVariants: the cascade and the greedy variant side by side *)

InitVariants ==
    /\ pc = "call"
    /\ op \in {"select", "greedy"}
    /\ notes \in NoteLists(MaxPlanNotes, VariantValues)
    /\ cfg \in [amountZat : {60000}, outputCount : 1..2, feePolicy : Policies]
    /\ world = <<>>
    /\ out = NoOut

CallSelectNotesGreedyVariant ==
    /\ pc = "call"
    /\ op = "greedy"
    /\ out' = SelectNotesGreedyVariant(notes, cfg.amountZat, cfg.outputCount, cfg.feePolicy)
    /\ pc' = "done"
    /\ UNCHANGED <<op, cfg, notes, world>>

NextVariants == CallSelectNotes \/ CallSelectNotesGreedyVariant

SpecVariants == InitVariants /\ [][NextVariants]_vars

---------------------------------------------------------------------------
(* SpecDust: SuppressDustChange applied to every input of the domain *)

DustTotalsIn == {0, 90000, 99999, 104999, 105000, 105001, MaxUint64} \cup (100000..100003)

DustTotalsOut == {0, 90000, 100001}

DustFees == {0, 9999, 10000, 10001, 15000}

DustMinChanges == {0, 1, 2, 5000}

InitDust ==
    /\ pc = "call"
    /\ op = "suppress"
    /\ notes = <<>>
    /\ cfg \in [totalIn : DustTotalsIn, totalOut : DustTotalsOut,
                feeZat : DustFees, minChangeZat : DustMinChanges]
    /\ world = <<>>
    /\ out = NoOut

CallSuppressDustChange ==
    /\ pc = "call"
    /\ op = "suppress"
    /\ out' = SuppressDustChange(cfg.totalIn, cfg.totalOut, cfg.feeZat, cfg.minChangeZat)
    /\ pc' = "done"
    /\ UNCHANGED <<op, cfg, notes, world>>

NextDust == CallSuppressDustChange

SpecDust == InitDust /\ [][NextDust]_vars

---------------------------------------------------------------------------
(* SpecConsolidate: selectNotesForConsolidation applied to every input of *)
(* the domain                                                             *)

ConsolidateValues == {100, 4000, 9000, 12000, MaxUint64 - 5000}

MaxSpendsValues == {-1, 0, 1, 2, 3}

InitConsolidate ==
    /\ pc = "call"
    /\ op = "selectForConsolidation"
    /\ notes \in NoteLists(MaxNotes, ConsolidateValues)
    /\ cfg \in [maxSpends : MaxSpendsValues, feePolicy : Policies]
    /\ world = <<>>
    /\ out = NoOut

CallSelectNotesForConsolidation ==
    /\ pc = "call"
    /\ op = "selectForConsolidation"
    /\ out' = selectNotesForConsolidation(notes, cfg.maxSpends, cfg.feePolicy)
    /\ pc' = "done"
    /\ UNCHANGED <<op, cfg, notes, world>>

NextConsolidate == CallSelectNotesForConsolidation

SpecConsolidate == InitConsolidate /\ [][NextConsolidate]_vars

---------------------------------------------------------------------------
(* SpecListNode: listUnspentOrchardNotes applied to every node answer of *)
(* the domain                                                            *)

GoodRawEntry ==
    [Pool |-> "orchard", Spendable |-> TRUE, Account |-> 0, TxID |-> "Ab",
     OutIndex |-> 0, Zat |-> 75000]

\* Entries that differ from GoodRawEntry in one field.
RawEntries ==
    { GoodRawEntry,
      [GoodRawEntry EXCEPT !.Pool = " Orchard "],
      [GoodRawEntry EXCEPT !.Pool = "sapling"],
      [GoodRawEntry EXCEPT !.Spendable = FALSE],
      [GoodRawEntry EXCEPT !.Account = -1],
      [GoodRawEntry EXCEPT !.Account = 1],
      [GoodRawEntry EXCEPT !.TxID = " "],
      [GoodRawEntry EXCEPT !.Zat = -1] }

\* The answers of z_listunspent: up to MaxRaw entries, the i-th with outindex i.
RawLists ==
    UNION { { [i \in 1..n |-> [b[i] EXCEPT !.OutIndex = i]] : b \in [1..n -> RawEntries] } :
              n \in 0..MaxRaw }

InitListNode ==
    /\ pc = "call"
    /\ op = "listUnspent"
    /\ notes = <<>>
    /\ cfg \in [account : {0, 1}]
    /\ world \in RawLists
    /\ out = NoOut

CallListUnspentOrchardNotes ==
    /\ pc = "call"
    /\ op = "listUnspent"
    /\ out' = listUnspentOrchardNotes(world, cfg.account)
    /\ pc' = "done"
    /\ UNCHANGED <<op, cfg, notes, world>>

NextListNode == CallListUnspentOrchardNotes

SpecListNode == InitListNode /\ [][NextListNode]_vars

---------------------------------------------------------------------------
(* Spec: the plan operations, over every configuration, candidate list and *)
(* collaborator answer of the domain                                       *)

PlanValues == {1000, 75000, MaxUint64 - 5000}

PlanOutputs == { <<>>, <<0>>, <<60000>>, <<30000, 30000>>, <<MaxUint64, 60000>> }

ExpiryOffsets == {0, 3, 4}

Heights == {-1, 100, MaxUint32 - 4, MaxUint32 + 1}

PlanPolicies == { [mult |-> 0, add |-> 0], [mult |-> 2, add |-> 1000] }

\* What the collaborators answer: the chain height, the anchor height of the
\* witness response (indexer mode; it may lag the chain height) and whether
\* the action lookup and the witness are usable.
Worlds ==
    { [Height |-> h, WitAnchorHeight |-> h, collab |-> "ok"] : h \in Heights }
    \cup { [Height |-> 100, WitAnchorHeight |-> 99, collab |-> "ok"] }
    \cup { [Height |-> 100, WitAnchorHeight |-> 100, collab |-> cb] :
             cb \in {"no_action", "witness_mismatch"} }

\* The requests of the three operations.
PlanConfigs ==
    { [Kind |-> "withdrawal", Scan |-> scan, Outputs |-> outs, ExpiryOffset |-> off,
       FeeMultiplier |-> pol.mult, FeeAddZat |-> pol.add, MinChangeZat |-> mc,
       MaxSpends |-> 0] :
        scan \in BOOLEAN, outs \in PlanOutputs, off \in ExpiryOffsets,
        pol \in PlanPolicies, mc \in {0, 10000} }

SweepConfigs ==
    { [Kind |-> "sweep", Scan |-> scan, Outputs |-> <<>>, ExpiryOffset |-> off,
       FeeMultiplier |-> pol.mult, FeeAddZat |-> pol.add, MinChangeZat |-> 0,
       MaxSpends |-> 0] :
        scan \in BOOLEAN, off \in ExpiryOffsets, pol \in PlanPolicies }

ConsolidateConfigs ==
    { [Kind |-> "rebalance", Scan |-> scan, Outputs |-> <<>>, ExpiryOffset |-> off,
       FeeMultiplier |-> pol.mult, FeeAddZat |-> pol.add, MinChangeZat |-> 0,
       MaxSpends |-> ms] :
        scan \in BOOLEAN, off \in ExpiryOffsets, pol \in PlanPolicies, ms \in {0, 2} }

InitPlan ==
    /\ pc = "call"
    /\ op \in {"plan", "sweep", "consolidate"}
    /\ cfg \in CASE op = "plan" -> PlanConfigs
                 [] op = "sweep" -> SweepConfigs
                 [] OTHER -> ConsolidateConfigs
    /\ notes \in NoteLists(MaxPlanNotes, PlanValues)
    /\ world \in Worlds
    /\ (~cfg.Scan => world.WitAnchorHeight = world.Height)
    /\ out = NoOut

\* A call is one of the three plan operations or a call of the selector.
Init == InitPlan \/ InitSelect

CallPlan ==
    /\ pc = "call"
    /\ op = "plan"
    /\ out' = Plan(cfg, notes, world)
    /\ pc' = "done"
    /\ UNCHANGED <<op, cfg, notes, world>>

CallPlanSweep ==
    /\ pc = "call"
    /\ op = "sweep"
    /\ out' = PlanSweep(cfg, notes, world)
    /\ pc' = "done"
    /\ UNCHANGED <<op, cfg, notes, world>>

CallPlanConsolidate ==
    /\ pc = "call"
    /\ op = "consolidate"
    /\ out' = PlanConsolidate(cfg, notes, world)
    /\ pc' = "done"
    /\ UNCHANGED <<op, cfg, notes, world>>

Next == CallPlan \/ CallPlanSweep \/ CallPlanConsolidate \/ CallSelectNotes

Spec == Init /\ [][Next]_vars

---------------------------------------------------------------------------
(* SpecRequest: the plan operations over requests that carry min_note and *)
(* memos, with healthy collaborators; and FilterNotesMinValue itself      *)

Memos ==
    { [len |-> 0, hex |-> TRUE, pad |-> FALSE],
      [len |-> 4, hex |-> TRUE, pad |-> TRUE],
      [len |-> 5, hex |-> TRUE, pad |-> FALSE],
      [len |-> 4, hex |-> FALSE, pad |-> FALSE],
      [len |-> 2 * MemoLimitBytes + 2, hex |-> TRUE, pad |-> FALSE] }

MinNotes == {0, 5000}

RequestConfigs ==
    { [Kind |-> kind, Scan |-> scan, Outputs |-> outs, ExpiryOffset |-> 0,
       FeeMultiplier |-> 0, FeeAddZat |-> 0, MinChangeZat |-> 0, MaxSpends |-> 0,
       MinNoteZat |-> mn, Memos |-> ms] :
        kind \in {"withdrawal"}, scan \in BOOLEAN, outs \in PlanOutputs,
        mn \in MinNotes, ms \in UNION { [1..n -> Memos] : n \in 0..2 } }

SingleOutputConfigs(kind) ==
    { [Kind |-> kind, Scan |-> scan, Outputs |-> <<>>, ExpiryOffset |-> 0,
       FeeMultiplier |-> 0, FeeAddZat |-> 0, MinChangeZat |-> 0, MaxSpends |-> 0,
       MinNoteZat |-> mn, Memos |-> <<m>>] :
        scan \in BOOLEAN, mn \in MinNotes, m \in Memos }

InitRequest ==
    /\ pc = "call"
    /\ op \in {"plan", "sweep", "consolidate", "filter"}
    /\ cfg \in CASE op = "plan" -> { c \in RequestConfigs : Len(c.Memos) = Len(c.Outputs) }
                 [] op = "sweep" -> SingleOutputConfigs("sweep")
                 [] op = "consolidate" -> SingleOutputConfigs("rebalance")
                 [] OTHER -> [MinNoteZat : MinNotes]
    /\ notes \in NoteLists(MaxPlanNotes, PlanValues)
    /\ world = [Height |-> 100, WitAnchorHeight |-> 100, collab |-> "ok"]
    /\ out = NoOut

CallFilterNotesMinValue ==
    /\ pc = "call"
    /\ op = "filter"
    /\ out' = FilterNotesMinValue(notes, cfg.MinNoteZat)
    /\ pc' = "done"
    /\ UNCHANGED <<op, cfg, notes, world>>

NextRequest == CallPlan \/ CallPlanSweep \/ CallPlanConsolidate \/ CallFilterNotesMinValue

SpecRequest == InitRequest /\ [][NextRequest]_vars

---------------------------------------------------------------------------
(* SpecWitness: the action and witness steps of planWithScan over every *)
(* answer of the node and the indexer of the domain                     *)

GoodHex == [len |-> HexLen32, hex |-> TRUE, pad |-> FALSE]

GoodAction ==
    [found |-> TRUE, Nullifier |-> GoodHex, CMX |-> GoodHex, EphemeralKey |-> GoodHex,
     EncCiphertext |-> [len |-> 1160, hex |-> TRUE, pad |-> FALSE]]

\* The node's answers for the first selected note; the others are well-formed.
ActionAnswers ==
    { GoodAction,
      [GoodAction EXCEPT !.found = FALSE],
      [GoodAction EXCEPT !.Nullifier = [len |-> HexLen32, hex |-> TRUE, pad |-> TRUE]],
      [GoodAction EXCEPT !.CMX = [len |-> HexLen32, hex |-> FALSE, pad |-> FALSE]],
      [GoodAction EXCEPT !.EphemeralKey = [len |-> HexLen32 - 2, hex |-> TRUE, pad |-> FALSE]],
      [GoodAction EXCEPT !.EncCiphertext = [len |-> EncCiphertextHexLen - 4, hex |-> TRUE,
                                            pad |-> FALSE]] }

TreePositions == {5, 7}

\* A path of the response: n entries, all of them 64 hex characters or not.
AuthPaths ==
    { [n |-> PathDepth, entriesHex |-> TRUE], [n |-> PathDepth - 1, entriesHex |-> TRUE],
      [n |-> PathDepth, entriesHex |-> FALSE] }

\* The witness responses: the j-th listed path is tagged j to tell it apart.
WitnessPaths ==
    UNION { { [j \in 1..n |-> [Position |-> f[j].Position,
                               AuthPath |-> [n |-> f[j].AuthPath.n,
                                             entriesHex |-> f[j].AuthPath.entriesHex,
                                             tag |-> j]]] :
                f \in [1..n -> [Position : TreePositions, AuthPath : AuthPaths]] } :
              n \in 0..MaxSelected }

InitWitness ==
    /\ pc = "call"
    /\ op = "witness"
    /\ cfg = <<>>
    /\ notes \in UNION { [1..n -> TreePositions] : n \in 1..MaxSelected }
    /\ \E a \in ActionAnswers, root \in {" ", "ab"},
          h \in {-1, 100, MaxUint32 + 1}, ps \in WitnessPaths :
         world = [actions |-> [i \in 1..Len(notes) |-> IF i = 1 THEN a ELSE GoodAction],
                  wit |-> [Root |-> root, AnchorHeight |-> h, Paths |-> ps]]
    /\ out = NoOut

CallPlanWithScanWitness ==
    /\ pc = "call"
    /\ op = "witness"
    /\ out' = planWithScanWitness(notes, world.actions, world.wit)
    /\ pc' = "done"
    /\ UNCHANGED <<op, cfg, notes, world>>

NextWitness == CallPlanWithScanWitness

SpecWitness == InitWitness /\ [][NextWitness]_vars

---------------------------------------------------------------------------
(* SpecScanList: the listing of the indexer's notes, page by page *)

ScanTip == 200

GoodScanNote ==
    [PendingSpentTxID |-> <<>>, Position |-> <<3>>, Height |-> ScanTip - 1,
     ActionIndex |-> 0, ValueZat |-> 20, TxID |-> 0]

\* Notes that differ from GoodScanNote in one field.
ScanNoteKinds ==
    { GoodScanNote,
      [GoodScanNote EXCEPT !.PendingSpentTxID = <<" ">>],
      [GoodScanNote EXCEPT !.PendingSpentTxID = <<"ab">>],
      [GoodScanNote EXCEPT !.Position = <<>>],
      [GoodScanNote EXCEPT !.Position = <<-1>>],
      [GoodScanNote EXCEPT !.Position = <<MaxUint32 + 1>>],
      [GoodScanNote EXCEPT !.Height = -1],
      [GoodScanNote EXCEPT !.Height = ScanTip + 1],
      [GoodScanNote EXCEPT !.Height = ScanTip],
      [GoodScanNote EXCEPT !.ActionIndex = -1],
      [GoodScanNote EXCEPT !.ValueZat = 0],
      [GoodScanNote EXCEPT !.ValueZat = MaxInt64] }

ScanCursors == 0..MaxCursors

\* The first page holds no note, one note of any kind, or that note and a
\* good one; the later pages hold no note or a good one.
FirstPageNotes ==
    {<<>>} \cup { <<k>> : k \in ScanNoteKinds } \cup { <<k, GoodScanNote>> : k \in ScanNoteKinds }

\* The j-th note of the page at cursor c is tagged 10 * c + j.
TagPage(c, ns) == [j \in 1..Len(ns) |-> [ns[j] EXCEPT !.TxID = 10 * c + j]]

\* The indexer: for every cursor the page it answers with.
ScanIndexers ==
    { [c \in ScanCursors |->
          [notes |-> TagPage(c, IF c = 0 THEN first ELSE later[c]), next |-> nxt[c]]] :
        first \in FirstPageNotes,
        later \in [1..MaxCursors -> {<<>>, <<GoodScanNote>>}],
        nxt \in [ScanCursors -> ScanCursors] }

InitScanList ==
    /\ pc = "call"
    /\ op = "scanlist"
    /\ cfg \in [tipHeight : {ScanTip}, minConf : {1, 2}]
    /\ notes = <<>>
    /\ world \in [pages : ScanIndexers]
    /\ out = ListingStart

\* One request of the listing and the handling of its answer.
FetchPage ==
    /\ pc = "call"
    /\ op = "scanlist"
    /\ out' = ListingStep(out, world.pages[out.cursor], cfg.tipHeight, cfg.minConf)
    /\ pc' = IF out'.finished THEN "done" ELSE "call"
    /\ UNCHANGED <<op, cfg, notes, world>>

NextScanList == FetchPage

SpecScanList == InitScanList /\ [][NextScanList]_vars

\* The listing is a loop of one goroutine: it keeps taking its next step.
SpecScanListFair == SpecScanList /\ WF_vars(FetchPage)

---------------------------------------------------------------------------
(* SpecCaller: Plan called on an Outputs slice the caller keeps *)

GoodOutput ==
    [ToAddress |-> <<"j">>, AmountZat |-> <<"6", "0", "0", "0", "0">>, MemoHex |-> <<>>]

\* Outputs that differ from GoodOutput in one field.
CallerOutputKinds ==
    { GoodOutput,
      [GoodOutput EXCEPT !.ToAddress = <<>>],
      [GoodOutput EXCEPT !.ToAddress = <<" ", "j">>],
      [GoodOutput EXCEPT !.AmountZat = <<>>],
      [GoodOutput EXCEPT !.AmountZat = <<"0">>],
      [GoodOutput EXCEPT !.AmountZat = <<"6", "0", "0", "0", "0", " ">>],
      [GoodOutput EXCEPT !.AmountZat = <<"6", "x">>],
      [GoodOutput EXCEPT !.MemoHex = <<"a", "b", " ">>] }

CallerOutputs == UNION { [1..n -> CallerOutputKinds] : n \in 0..MaxCallerOutputs }

\* cfg.Outputs is the slice as the caller passed it; world.CallerOutputs is
\* its backing array, which the caller still holds after the call.
InitCaller ==
    /\ pc = "call"
    /\ op = "planCall"
    /\ cfg \in [Kind : {"withdrawal"}, Scan : BOOLEAN, Outputs : CallerOutputs,
                ExpiryOffset : {0}, FeeMultiplier : {0}, FeeAddZat : {0},
                MinChangeZat : {0}, MaxSpends : {0}]
    /\ notes \in NoteLists(1, {75000})
    /\ world \in [Height : {-1, 100}, WitAnchorHeight : {100}, collab : {"ok"},
                  CallerOutputs : {cfg.Outputs}]
    /\ out = NoOut

CallPlanOnCallerOutputs ==
    /\ pc = "call"
    /\ op = "planCall"
    /\ out' = PlanOnCallerOutputs(cfg, notes, world, world.CallerOutputs).out
    /\ world' = [world EXCEPT !.CallerOutputs =
                     PlanOnCallerOutputs(cfg, notes, world, world.CallerOutputs).outputs]
    /\ pc' = "done"
    /\ UNCHANGED <<op, cfg, notes>>

NextCaller == CallPlanOnCallerOutputs

SpecCaller == InitCaller /\ [][NextCaller]_vars

---------------------------------------------------------------------------
(* SpecConcurrent: two Plan calls started from copies of one PlanConfig *)

Invocations == {1, 2}

\* The copies share the backing array of Outputs: world.mem is the header of
\* Outputs[0].AmountZat in it, world.buf the bytes the caller stored and
\* world.after the byte that happens to follow them in memory.
InitConcurrent ==
    /\ pc = [i \in Invocations |-> "load_ptr"]
    /\ op = "concurrent"
    /\ cfg \in [Kind : {"withdrawal"}, Scan : BOOLEAN, Outputs : {<<>>},
                ExpiryOffset : {0}, FeeMultiplier : {0}, FeeAddZat : {0},
                MinChangeZat : {0}, MaxSpends : {0}]
    /\ notes \in NoteLists(1, {75000})
    /\ \E buf \in { <<" ", "6", "0", "0", "0", "0">>, <<"6", "0", "0", "0", "0">>,
                    <<"6", "0", "0", "0", "0", " ">> },
          after \in {"0", " ", "x"} :
         world = [Height |-> 100, WitAnchorHeight |-> 100, collab |-> "ok",
                  buf |-> buf, after |-> after, mem |-> [ptr |-> 0, len |-> Len(buf)]]
    /\ out = [i \in Invocations |-> [ptr |-> 0, len |-> 0, res |-> NoOut]]

\* cfg.Outputs[i].AmountZat = strings.TrimSpace(cfg.Outputs[i].AmountZat):
\* the two words are loaded, then the two words of the result are stored.
LoadPtr(i) ==
    /\ pc[i] = "load_ptr"
    /\ out' = [out EXCEPT ![i].ptr = world.mem.ptr]
    /\ pc' = [pc EXCEPT ![i] = "load_len"]
    /\ UNCHANGED <<op, cfg, notes, world>>

LoadLen(i) ==
    /\ pc[i] = "load_len"
    /\ out' = [out EXCEPT ![i].len = world.mem.len]
    /\ pc' = [pc EXCEPT ![i] = "store_ptr"]
    /\ UNCHANGED <<op, cfg, notes, world>>

StorePtr(i) ==
    /\ pc[i] = "store_ptr"
    /\ world' = [world EXCEPT !.mem.ptr = TrimHeader(world, out[i]).ptr]
    /\ pc' = [pc EXCEPT ![i] = "store_len"]
    /\ UNCHANGED <<op, cfg, notes, out>>

StoreLen(i) ==
    /\ pc[i] = "store_len"
    /\ world' = [world EXCEPT !.mem.len = TrimHeader(world, out[i]).len]
    /\ pc' = [pc EXCEPT ![i] = "reload_ptr"]
    /\ UNCHANGED <<op, cfg, notes, out>>

\* The checks and parseUint64Decimal read cfg.Outputs[i].AmountZat again.
ReloadPtr(i) ==
    /\ pc[i] = "reload_ptr"
    /\ out' = [out EXCEPT ![i].ptr = world.mem.ptr]
    /\ pc' = [pc EXCEPT ![i] = "reload_len"]
    /\ UNCHANGED <<op, cfg, notes, world>>

\* With the string read, the rest of Plan runs on the invocation's own data.
ReloadLenAndFinish(i) ==
    /\ pc[i] = "reload_len"
    /\ out' = [out EXCEPT ![i].len = world.mem.len,
                          ![i].res = PlanWithAmountString(cfg, notes, world,
                                        BytesOf(world, [ptr |-> out[i].ptr,
                                                        len |-> world.mem.len]))]
    /\ pc' = [pc EXCEPT ![i] = "done"]
    /\ UNCHANGED <<op, cfg, notes, world>>

NextConcurrent ==
    \E i \in Invocations :
        \/ LoadPtr(i)
        \/ LoadLen(i)
        \/ StorePtr(i)
        \/ StoreLen(i)
        \/ ReloadPtr(i)
        \/ ReloadLenAndFinish(i)

SpecConcurrent == InitConcurrent /\ [][NextConcurrent]_vars

---------------------------------------------------------------------------
(* SpecOrder: the cascade applied to two orderings of the same candidates *)

\* Candidates that tie in value, and in value and txid.
OrderNotes ==
    { [txid |-> id[1], idx |-> id[2], value |-> v] :
        id \in {<<1, 0>>, <<1, 1>>, <<2, 0>>}, v \in {25000, 70000} }

Reorderings(n) == { p \in [1..n -> 1..n] : \A i, j \in 1..n : p[i] = p[j] => i = j }

Permute(ns, p) == [i \in 1..Len(ns) |-> ns[p[i]]]

InitOrder ==
    /\ pc = "call"
    /\ op = "selectOrders"
    /\ notes \in UNION { [1..n -> OrderNotes] : n \in 0..MaxOrderNotes }
    /\ cfg \in [amountZat : {10000, 60000}, outputCount : 1..2,
                feePolicy : {[Multiplier |-> 0, AddZat |-> 0]}]
    /\ world \in Reorderings(Len(notes))
    /\ out = NoOut

\* Two calls: on the candidates as listed and on them reordered by world.
CallSelectNotesOnBothOrders ==
    /\ pc = "call"
    /\ op = "selectOrders"
    /\ out' = [first |-> SelectNotesWithFeePolicy(notes, cfg.amountZat, cfg.outputCount,
                                                  cfg.feePolicy),
               second |-> SelectNotesWithFeePolicy(Permute(notes, world), cfg.amountZat,
                                                   cfg.outputCount, cfg.feePolicy)]
    /\ pc' = "done"
    /\ UNCHANGED <<op, cfg, notes, world>>

NextOrder == CallSelectNotesOnBothOrders

SpecOrder == InitOrder /\ [][NextOrder]_vars

---------------------------------------------------------------------------
(* SpecParse: ParseZECToZat applied to every string of the domain *)

WholeParts ==
    { <<>>, <<"0">>, <<"1", "0">>, <<"1", "1">>, <<"-", "1">>, <<"x">> }

FracParts ==
    { <<>>, <<"2", "4", "9", "8", "5">>, <<"2", "4", "9", "8", "5", "0", "0", "0">>,
      <<"7", "3", "7", "4", "1", "8", "2", "3">>, <<"7", "3", "7", "4", "1", "8", "2", "4">>,
      <<"9", "9", "9", "9", "9", "9", "9", "9">>,
      <<"1", "2", "3", "4", "5", "6", "7", "8", "9">>, <<"1", ".", "5">> }

\* The strings: a whole part alone or followed by "." and a fractional part,
\* as written or between blanks.
ZECStrings ==
    LET bare == WholeParts \cup { w \o <<".">> \o f : w \in WholeParts, f \in FracParts }
    IN  bare \cup { <<" ">> \o t \o <<" ">> : t \in bare }

InitParse ==
    /\ pc = "call"
    /\ op = "parseZEC"
    /\ cfg = <<>>
    /\ notes = <<>>
    /\ world \in ZECStrings
    /\ out = NoOut

CallParseZECToZat ==
    /\ pc = "call"
    /\ op = "parseZEC"
    /\ out' = ParseZECToZat(world)
    /\ pc' = "done"
    /\ UNCHANGED <<op, cfg, notes, world>>

NextParse == CallParseZECToZat

SpecParse == InitParse /\ [][NextParse]_vars

---------------------------------------------------------------------------
(* SpecFee: RequiredFeeSend and FeePolicy.Apply on every input of the domain *)

FeeCounts == (-1)..MaxFeeCount

FeePolicies ==
    [Multiplier : {0, 1, 2, 100, 101}, AddZat : {0, 1000, MaxUint64 - 10000, MaxUint64}]

InitFee ==
    /\ pc = "call"
    /\ op = "fee"
    /\ \E n \in FeeCounts, o \in FeeCounts, p \in FeePolicies :
         \E base \in {0, RequiredFeeSend(n, o), MaxUint64} :
            cfg = [spendCount |-> n, outputCount |-> o, base |-> base, feePolicy |-> p]
    /\ notes = <<>>
    /\ world = <<>>
    /\ out = NoOut

CallRequiredFeeAndApply ==
    /\ pc = "call"
    /\ op = "fee"
    /\ out' = [required |-> RequiredFeeSend(cfg.spendCount, cfg.outputCount),
               applied |-> Apply(cfg.feePolicy, cfg.base)]
    /\ pc' = "done"
    /\ UNCHANGED <<op, cfg, notes, world>>

NextFee == CallRequiredFeeAndApply

SpecFee == InitFee /\ [][NextFee]_vars

---------------------------------------------------------------------------
(* SpecTree: the witness of every tree and request of the domain *)

\* The commitments: leaves may repeat.
Commitments == {<<"a">>, <<"b">>}

InitTree ==
    /\ pc = "call"
    /\ op = "nodeWitness"
    /\ cfg = <<>>
    /\ world \in UNION { [1..n -> Commitments] : n \in 0..MaxLeaves }
    /\ notes \in UNION { [1..n -> 0..MaxLeaves] : n \in 1..2 }
    /\ out = NoOut

CallPlanNodeWitness ==
    /\ pc = "call"
    /\ op = "nodeWitness"
    /\ out' = PlanNodeWitness(world, notes)
    /\ pc' = "done"
    /\ UNCHANGED <<op, cfg, notes, world>>

NextTree == CallPlanNodeWitness

SpecTree == InitTree /\ [][NextTree]_vars

---------------------------------------------------------------------------
(* SpecFallback: the cascade on candidates that reach its later strategies *)

FallbackValues == {25000, 30000, 400000}

InitFallback ==
    /\ pc = "call"
    /\ op = "select"
    /\ notes \in NoteLists(MaxNotes, FallbackValues)
    /\ cfg \in [amountZat : {60000, 900000}, outputCount : 1..MaxOutputs,
                feePolicy : {[Multiplier |-> 0, AddZat |-> 0]}]
    /\ world = <<>>
    /\ out = NoOut

SpecFallback == InitFallback /\ [][NextSelect]_vars

---------------------------------------------------------------------------
(* SpecBestFit: the cascade on candidates that reach the 2-note best fit *)

BestFitValues == {20000, 40000, 60000, 90000, 300000, 400000, 450000, 650000}

InitBestFit ==
    /\ pc = "call"
    /\ op = "select"
    /\ notes \in NoteLists(MaxNotes, BestFitValues)
    /\ cfg \in [amountZat : {85000, 900000}, outputCount : 1..MaxOutputs,
                feePolicy : {[Multiplier |-> 0, AddZat |-> 0]}]
    /\ world = <<>>
    /\ out = NoOut

SpecBestFit == InitBestFit /\ [][NextSelect]_vars

---------------------------------------------------------------------------
(* SpecNoTwice: the plan operations, the selector and the consolidation    *)
(* selection, on candidates of distinct outpoints and on candidate lists   *)
(* that hold an entry more than once                                       *)

RepeatedValues == {4000, 25000, 70000}

\* Candidate lists whose entries share two outpoints.
RepeatedNoteLists(maxLen, values) ==
    UNION { { [i \in 1..n |-> NoteAt(js[i], vs[i])] :
                js \in [1..n -> {1, 2}], vs \in [1..n -> values] } : n \in 0..maxLen }

InitRepeated ==
    /\ pc = "call"
    /\ op \in {"select", "selectForConsolidation"}
    /\ notes \in RepeatedNoteLists(MaxPlanNotes, RepeatedValues)
    /\ cfg \in IF op = "select"
               THEN [amountZat : {60000}, outputCount : 1..MaxOutputs, feePolicy : Policies]
               ELSE [maxSpends : MaxSpendsValues, feePolicy : Policies]
    /\ world = <<>>
    /\ out = NoOut

InitNoTwice == InitPlan \/ InitSelect \/ InitConsolidate \/ InitRepeated

NextNoTwice ==
    \/ CallPlan
    \/ CallPlanSweep
    \/ CallPlanConsolidate
    \/ CallSelectNotes
    \/ CallSelectNotesForConsolidation

SpecNoTwice == InitNoTwice /\ [][NextNoTwice]_vars

---------------------------------------------------------------------------
(* Properties *)

\* The policy fee of a transaction with n spends and k outputs.
PolicyFee(n, k, p) == Apply(p, RequiredFeeSend(n, k))

PlanOps == {"plan", "sweep", "consolidate"}

Emitted == pc = "done" /\ op \in PlanOps /\ out.code = ""

Selected == pc = "done" /\ op = "select" /\ out.err = ""

\* C1: every emitted plan satisfies sum(inputs) >= sum(outputs) + fee in
\* unbounded arithmetic, none of the three totals exceeding the uint64 range,
\* and every successful selection satisfies sum(selected) >= amount + fee.
C1_InputsCoverOutputsAndFee ==
    /\ Emitted =>
         /\ SumValues(out.plan.Notes) >= SumSeq(out.plan.Outputs) + out.plan.FeeZat
         /\ SumValues(out.plan.Notes) <= MaxUint64
         /\ SumSeq(out.plan.Outputs) + out.plan.FeeZat <= MaxUint64
    /\ Selected =>
         /\ SumValues(out.selected) >= cfg.amountZat + out.fee
         /\ SumValues(out.selected) <= MaxUint64

\* A withdrawal plan of two notes that leaves change.
C1_Witness ==
    /\ Emitted
    /\ op = "plan"
    /\ Len(out.plan.Notes) = 2
    /\ SumValues(out.plan.Notes) > SumSeq(out.plan.Outputs) + out.plan.FeeZat

\* C2: the fee of a successful selection is the policy fee of (|selected|,
\* k_out) or of (|selected|, k_out + 1), and it is the latter whenever the
\* selection leaves change.
C2_FeeMatchesShape ==
    Selected =>
        LET n  == Len(out.selected)
            nc == PolicyFee(n, cfg.outputCount, cfg.feePolicy)
            wc == PolicyFee(n, cfg.outputCount + 1, cfg.feePolicy)
        IN  /\ (nc.ok /\ out.fee = nc.v) \/ (wc.ok /\ out.fee = wc.v)
            /\ SumValues(out.selected) - cfg.amountZat - out.fee > 0
                 => (wc.ok /\ out.fee = wc.v)

\* Notes {75000, 10000}, amount 60000, one output, multiplier 2: both notes,
\* fee 20000.
C2_Witness ==
    /\ Selected
    /\ cfg.amountZat = 60000 /\ cfg.outputCount = 1 /\ cfg.feePolicy.Multiplier = 2
    /\ Len(notes) = 2 /\ notes[1].value = 75000 /\ notes[2].value = 10000
    /\ Len(out.selected) = 2 /\ out.fee = 20000

\* C3: every emitted plan has expiry_height = anchor_height + 1 +
\* expiry_offset as an exact sum within the uint32 range.
C3_ExpiryIsAnchorPlusOnePlusOffset ==
    Emitted =>
        /\ out.plan.ExpiryHeight = out.plan.AnchorHeight + 1 + EffectiveExpiryOffset(cfg)
        /\ out.plan.ExpiryHeight <= MaxUint32

\* C4: a non-zero expiry_offset below 4 is rejected with invalid_request, and
\* no emitted plan expires before anchor_height + 5.
C4_SmallExpiryOffsetRejected ==
    /\ (pc = "done" /\ op \in PlanOps /\ cfg.ExpiryOffset \in 1..3)
         => out.code = "invalid_request"
    /\ Emitted => out.plan.ExpiryHeight >= out.plan.AnchorHeight + 5

\* Some candidate has exactly the value amount + fee(1, k_out).
HasExactNoChangeNote ==
    LET f == PolicyFee(1, cfg.outputCount, cfg.feePolicy)
    IN  f.ok /\ \E i \in 1..Len(notes) : notes[i].value = cfg.amountZat + f.v

\* C5: if a single candidate has exactly the value amount + fee(1, k_out),
\* the selector returns one note of that value with that fee.
C5_SingleExactNoteReturned ==
    (pc = "done" /\ op = "select" /\ HasExactNoChangeNote) =>
        LET f == PolicyFee(1, cfg.outputCount, cfg.feePolicy)
        IN  /\ out.err = ""
            /\ Len(out.selected) = 1
            /\ out.selected[1].value = cfg.amountZat + f.v
            /\ out.fee = f.v

\* Notes {70000, 1000}, amount 60000, two outputs: {70000} and fee 10000.
C5_Witness ==
    /\ pc = "done" /\ op = "select"
    /\ cfg.amountZat = 60000 /\ cfg.outputCount = 2 /\ cfg.feePolicy.Multiplier = 0
    /\ Len(notes) = 2 /\ notes[1].value = 70000 /\ notes[2].value = 1000
    /\ out.err = "" /\ Len(out.selected) = 1 /\ out.selected[1].value = 70000
    /\ out.fee = 10000

\* Some candidate has exactly the value amount + fee(1, k_out + 1) while
\* fee(1, k_out) is lower.
HasExactWithChangeNote ==
    LET nc == PolicyFee(1, cfg.outputCount, cfg.feePolicy)
        wc == PolicyFee(1, cfg.outputCount + 1, cfg.feePolicy)
    IN  /\ nc.ok /\ wc.ok /\ nc.v < wc.v
        /\ \E i \in 1..Len(notes) : notes[i].value = cfg.amountZat + wc.v

\* The result is that note alone.
ReturnsExactWithChangeNoteAlone ==
    LET wc == PolicyFee(1, cfg.outputCount + 1, cfg.feePolicy)
    IN  /\ out.err = ""
        /\ Len(out.selected) = 1
        /\ out.selected[1].value = cfg.amountZat + wc.v

RECURSIVE SumOver(_, _)
SumOver(ns, S) ==
    IF S = {} THEN 0
    ELSE LET i == CHOOSE x \in S : TRUE
         IN  ns[i].value + SumOver(ns, S \ {i})

NoteSubsets == (SUBSET (1..Len(notes))) \ {{}}

\* S meets the target without a change output: sum(S) = amount + fee(|S|, k_out).
MeetsNoChange(ns, S) ==
    LET f == PolicyFee(Cardinality(S), cfg.outputCount, cfg.feePolicy)
    IN  f.ok /\ SumOver(ns, S) = cfg.amountZat + f.v

\* S meets the target with a change output: sum(S) >= amount + fee(|S|, k_out + 1).
MeetsWithChange(ns, S) ==
    LET f == PolicyFee(Cardinality(S), cfg.outputCount + 1, cfg.feePolicy)
    IN  f.ok /\ SumOver(ns, S) >= cfg.amountZat + f.v

SomeSubsetMeetsTarget ==
    \E S \in NoteSubsets : MeetsNoChange(notes, S) \/ MeetsWithChange(notes, S)

\* The subsets the cascade examines for an exact no-change total: those of one
\* or two notes and the largest-first prefixes.
SomeExaminedSubsetMeetsTarget ==
    \/ \E S \in NoteSubsets : MeetsWithChange(notes, S)
    \/ \E S \in NoteSubsets : Cardinality(S) <= 2 /\ MeetsNoChange(notes, S)
    \/ \E m \in 1..Len(notes) : MeetsNoChange(sortByDesc(notes), 1..m)

NoOverflow == out.err # "overflow"

\* C8 as stated: absent overflow, the selector fails with insufficient funds
\* exactly when no subset of the candidates meets the target.
C8_InsufficientIffNoSubset ==
    (pc = "done" /\ op = "select" /\ NoOverflow) =>
        (out.err = "insufficient funds" <=> ~SomeSubsetMeetsTarget)

\* C8 (amended): absent overflow, the selector fails with insufficient funds
\* exactly when no subset meets the with-change target and no subset of one
\* or two notes and no largest-first prefix meets the exact no-change target;
\* in particular it fails whenever no subset at all meets the target.
C8_InsufficientIffNoExaminedSubset ==
    (pc = "done" /\ op = "select" /\ NoOverflow) =>
        /\ out.err = "insufficient funds" <=> ~SomeExaminedSubsetMeetsTarget
        /\ ~SomeSubsetMeetsTarget => out.err = "insufficient funds"

\* Notes {70000, 4000, 4000, 1000}, amount 60000, three outputs: the subset
\* {70000, 4000, 1000} totals amount + fee(3, 3), and the selector fails.
C8_Witness ==
    /\ pc = "done" /\ op = "select"
    /\ out.err = "insufficient funds"
    /\ SomeSubsetMeetsTarget
    /\ ~SomeExaminedSubsetMeetsTarget

\* Two candidates total exactly amount + fee(2, k_out).
HasExactPair ==
    LET f == PolicyFee(2, cfg.outputCount, cfg.feePolicy)
    IN  f.ok /\ \E i, j \in 1..Len(notes) :
                   i < j /\ notes[i].value + notes[j].value = cfg.amountZat + f.v

\* Some candidate is a 1-note best fit: worth at least amount + fee(1, k_out + 1).
HasOneNoteBestFit ==
    LET f == PolicyFee(1, cfg.outputCount + 1, cfg.feePolicy)
    IN  f.ok /\ \E i \in 1..Len(notes) : notes[i].value >= cfg.amountZat + f.v

\* Every 1-note best fit leaves change and its fee is above the pair's fee.
BestFitNeedsChangeAndHigherFee ==
    LET f1 == PolicyFee(1, cfg.outputCount + 1, cfg.feePolicy)
        f2 == PolicyFee(2, cfg.outputCount, cfg.feePolicy)
    IN  /\ f1.v > f2.v
        /\ \A i \in 1..Len(notes) : notes[i].value # cfg.amountZat + f1.v
        /\ ~HasExactNoChangeNote

\* The result is two notes totalling amount + fee(2, k_out), at that fee.
ReturnsExactPair ==
    LET f == PolicyFee(2, cfg.outputCount, cfg.feePolicy)
    IN  /\ out.err = ""
        /\ Len(out.selected) = 2
        /\ SumValues(out.selected) = cfg.amountZat + f.v
        /\ out.fee = f.v

DustChange == cfg.totalIn - cfg.totalOut - cfg.feeZat

\* C10: with min_change > 0 and valid totals the fee becomes fee + change,
\* suppressed, exactly when 0 < change < min_change, and is returned
\* untouched otherwise; the change left is 0 or at least min_change.
C10_DustChangeFoldedIntoFee ==
    (pc = "done" /\ op = "suppress" /\ cfg.minChangeZat > 0 /\ DustChange >= 0) =>
        /\ out.err = ""
        /\ out.suppressed <=> (0 < DustChange /\ DustChange < cfg.minChangeZat)
        /\ out.fee = IF out.suppressed THEN cfg.feeZat + DustChange ELSE cfg.feeZat
        /\ LET residual == cfg.totalIn - cfg.totalOut - out.fee
           IN  residual = 0 \/ residual >= cfg.minChangeZat

\* (100001, 90000, 10000, 5000) gives fee 10001, suppressed.
C10_Witness ==
    /\ pc = "done" /\ op = "suppress"
    /\ cfg.totalIn = 100001 /\ cfg.totalOut = 90000
    /\ cfg.feeZat = 10000 /\ cfg.minChangeZat = 5000
    /\ out.err = "" /\ out.fee = 10001 /\ out.suppressed

\* The totals are invalid: total_in < total_out or fee > total_in - total_out.
InvalidTotals ==
    cfg.totalIn < cfg.totalOut \/ cfg.feeZat > cfg.totalIn - cfg.totalOut

\* C11 as stated: invalid totals are rejected with "invalid totals" for every
\* min_change, 0 included.
C11_InvalidTotalsAlwaysRejected ==
    (pc = "done" /\ op = "suppress" /\ InvalidTotals) => out.err = "invalid totals"

\* C11 (amended): invalid totals are rejected with "invalid totals" for every
\* min_change > 0; with min_change = 0 the fee is returned untouched and the
\* totals are not examined.
C11_InvalidTotalsRejectedWhenEnabled ==
    (pc = "done" /\ op = "suppress" /\ InvalidTotals) =>
        IF cfg.minChangeZat > 0
        THEN out.err = "invalid totals" /\ out.fee = 0 /\ ~out.suppressed
        ELSE out.err = "" /\ out.fee = cfg.feeZat /\ ~out.suppressed

\* A fee above total_in - total_out with suppression enabled is rejected.
C11_Witness ==
    /\ pc = "done" /\ op = "suppress"
    /\ cfg.minChangeZat > 0
    /\ cfg.totalIn >= cfg.totalOut
    /\ cfg.feeZat > cfg.totalIn - cfg.totalOut
    /\ out.err = "invalid totals"

\* m = min(max_spends, or 50 when max_spends <= 0, len(notes)).
ConsolidateM ==
    LET m1 == IF cfg.maxSpends <= 0 THEN 50 ELSE cfg.maxSpends
    IN  IF m1 > Len(notes) THEN Len(notes) ELSE m1

\* The indices of the t smallest and the k - t largest notes of an ascending list.
SmallAndLarge(n, k, t) == (1..t) \cup ((n - (k - t) + 1)..n)

\* The k for which some k-subset of the notes totals more than fee(k, 1).
FeasibleKs ==
    { k \in 2..ConsolidateM :
        \E S \in NoteSubsets :
            /\ Cardinality(S) = k
            /\ SumOver(notes, S) > PolicyFee(k, 1, cfg.feePolicy).v }

\* For the largest such k and the largest t whose t smallest plus k - t
\* largest notes total more than fee(k, 1): the result is those notes and
\* that fee.
ReturnsLargestKLargestT ==
    LET asc == sortByAsc(notes)
        n   == Len(notes)
        k   == CHOOSE x \in FeasibleKs : \A y \in FeasibleKs : y <= x
        fee == PolicyFee(k, 1, cfg.feePolicy).v
        Ts  == { x \in 0..k : SumOver(asc, SmallAndLarge(n, k, x)) > fee }
        t   == CHOOSE x \in Ts : \A y \in Ts : y <= x
    IN  /\ out.code = ""
        /\ out.fee = fee
        /\ Len(out.selected) = k
        /\ out.selected = SubSeq(asc, 1, t) \o SubSeq(asc, n - (k - t) + 1, n)

\* C12 as stated: invalid_request when m < 2; otherwise the largest feasible k
\* with the largest t and fee(k, 1); insufficient_balance when no k is
\* feasible.
C12_ConsolidationSelection ==
    (pc = "done" /\ op = "selectForConsolidation") =>
        IF ConsolidateM < 2 THEN out.code = "invalid_request"
        ELSE IF FeasibleKs = {} THEN out.code = "insufficient_balance"
        ELSE ReturnsLargestKLargestT

\* C12 (amended): the same, provided the total of all notes fits in uint64;
\* when it does not, the selector fails with an overflow error for m >= 2.
C12_ConsolidationSelectionAbsentOverflow ==
    (pc = "done" /\ op = "selectForConsolidation") =>
        IF ConsolidateM < 2 THEN out.code = "invalid_request"
        ELSE IF SumValues(notes) > MaxUint64 THEN out.code = "error"
        ELSE IF FeasibleKs = {} THEN out.code = "insufficient_balance"
        ELSE ReturnsLargestKLargestT

\* Four notes, max_spends 3, one small and two large notes selected (t = 1).
C12_Witness ==
    /\ pc = "done" /\ op = "selectForConsolidation"
    /\ Len(notes) = 4 /\ cfg.maxSpends = 3
    /\ out.code = "" /\ Len(out.selected) = 3
    /\ out.selected[1].value = 100
    /\ out.selected[2].value >= 4000
    /\ SumValues(notes) <= MaxUint64

\* The fee policy the request configures.
RequestPolicy == [Multiplier |-> cfg.FeeMultiplier, AddZat |-> cfg.FeeAddZat]

\* The chain height the node reported is a uint32.
HeightValid == world.Height \in 0..MaxUint32

\* C13: a sweep plan spends every candidate, in order, at fee
\* Apply(RequiredFeeSend(n, 1)), with the single output total_in - fee; with
\* no candidates or total_in <= fee no plan is emitted, and the failure (once
\* the chain height has been read) is insufficient_balance.
C13_SweepSpendsEverything ==
    (pc = "done" /\ op = "sweep") =>
        LET n     == Len(notes)
            fee   == PolicyFee(n, 1, RequestPolicy)
            total == SumValues(notes)
        IN  /\ out.code = "" =>
                 /\ out.plan.Notes = notes
                 /\ fee.ok /\ out.plan.FeeZat = fee.v
                 /\ out.plan.Outputs = <<total - fee.v>>
                 /\ total - fee.v > 0
            /\ (n = 0 \/ (fee.ok /\ total <= fee.v)) =>
                 /\ out.code # ""
                 /\ HeightValid => out.code = "insufficient_balance"

\* A sweep of three notes through the indexer.
C13_Witness ==
    /\ pc = "done" /\ op = "sweep" /\ cfg.Scan
    /\ Len(notes) = 3
    /\ out.code = "" /\ Len(out.plan.Notes) = 3 /\ Len(out.plan.Outputs) = 1

\* C14: every note listed through the node comes from an entry of pool
\* orchard that is spendable and whose account, when present, is the
\* configured one.
C14_NodeListingOnlySpendableOrchard ==
    (pc = "done" /\ op = "listUnspent" /\ out.err = "") =>
        \A j \in 1..Len(out.notes) :
            \E i \in 1..Len(world) :
                /\ world[i].OutIndex = out.notes[j].idx
                /\ LowerTrim(world[i].Pool) = "orchard"
                /\ world[i].Spendable
                /\ (world[i].Account = -1 \/ world[i].Account = cfg.account)

\* C15: with min_note > 0 no emitted plan spends a note below min_note, and
\* FilterNotesMinValue keeps exactly the notes worth at least min_note, in
\* their order (all of them when min_note = 0).
C15_NoNoteBelowMinNote ==
    /\ (Emitted /\ cfg.MinNoteZat > 0) =>
         \A i \in 1..Len(out.plan.Notes) : out.plan.Notes[i].value >= cfg.MinNoteZat
    /\ (pc = "done" /\ op = "filter") =>
         out = SelectSeq(notes, LAMBDA n : n.value >= cfg.MinNoteZat)

\* A memo is valid: hex digits only, an even number of them, at most
\* MemoLimitBytes bytes.
MemoValid(m) ==
    m.hex /\ m.len % 2 = 0 /\ m.len \div 2 <= MemoLimitBytes

\* C16: no emitted plan has an output whose memo_hex is not valid hex or
\* decodes to more than 512 bytes.
C16_InvalidMemoRejected ==
    Emitted => \A i \in 1..Len(cfg.Memos) : MemoValid(PlanMemos(cfg)[i])

WitnessEmitted == pc = "done" /\ op = "witness" /\ out.code = ""

\* C17: in every emitted plan every note has a path of 32 entries, each 64
\* hex characters, a 32-byte hex nullifier, cmx and ephemeral key, and a
\* 52-byte hex ciphertext, whatever the collaborators answered.
C17_PlanNotesWellFormed ==
    WitnessEmitted =>
        \A i \in 1..Len(out.plan.Notes) :
            LET n == out.plan.Notes[i]
            IN  /\ n.Path.n = PathDepth
                /\ n.Path.entriesHex
                /\ is32ByteHex(n.ActionNullifier)
                /\ is32ByteHex(n.CMX)
                /\ is32ByteHex(n.EphemeralKey)
                /\ n.EncCiphertext.len = EncCiphertextHexLen /\ n.EncCiphertext.hex

\* C18: in indexer mode a plan is emitted only if the witness response has a
\* non-blank root, an anchor height in the uint32 range, as many paths as
\* positions and, for every note, a path of 32 entries listed for the note's
\* position; each note carries a path the response lists for its position.
C18_WitnessResponseChecked ==
    WitnessEmitted =>
        /\ world.wit.Root \notin {"", " "}
        /\ world.wit.AnchorHeight \in 0..MaxUint32
        /\ out.plan.AnchorHeight = world.wit.AnchorHeight
        /\ Len(world.wit.Paths) = Len(notes)
        /\ Len(out.plan.Notes) = Len(notes)
        /\ \A i \in 1..Len(notes) :
              /\ out.plan.Notes[i].Position = notes[i]
              /\ out.plan.Notes[i].Path.n = PathDepth
              /\ \E j \in 1..Len(world.wit.Paths) :
                    /\ world.wit.Paths[j].Position = notes[i]
                    /\ world.wit.Paths[j].AuthPath = out.plan.Notes[i].Path

\* Two notes at positions 5 and 7, the response listing 7 before 5.
C18_Witness ==
    /\ WitnessEmitted
    /\ notes = <<5, 7>>
    /\ world.wit.Paths[1].Position = 7 /\ world.wit.Paths[2].Position = 5
    /\ out.plan.Notes[1].Path.tag = 2 /\ out.plan.Notes[2].Path.tag = 1

ListingEnded == pc = "done" /\ op = "scanlist"

\* The notes of the pages in upstream order: the page at cursor c, then the
\* pages that follow it, at most k of them.
RECURSIVE UpstreamNotes(_, _, _)
UpstreamNotes(pages, c, k) ==
    IF k = 0 \/ pages[c].next = 0 THEN pages[c].notes
    ELSE pages[c].notes \o UpstreamNotes(pages, pages[c].next, k - 1)

AsSpendable(n) ==
    [TxID |-> n.TxID, ActionIndex |-> n.ActionIndex, Height |-> n.Height,
     Position |-> n.Position[1], ValueZat |-> n.ValueZat]

KeepNotes(raw, Keep(_)) ==
    LET kept == SelectSeq(raw, Keep)
    IN  [i \in 1..Len(kept) |-> AsSpendable(kept[i])]

\* The filters as the claim lists them.
PassesListedFilters(n) ==
    /\ Len(n.PendingSpentTxID) = 0 \/ n.PendingSpentTxID[1] \in {"", " "}
    /\ Len(n.Position) = 1 /\ n.Position[1] >= 0
    /\ 0 <= n.Height /\ n.Height <= cfg.tipHeight
    /\ cfg.tipHeight - n.Height + 1 >= cfg.minConf
    /\ 0 < n.ValueZat /\ n.ValueZat <= MaxInt64

PassesAllFilters(n) == PassesListedFilters(n) /\ n.ActionIndex >= 0

C21_FailedPlanHasNoSideEffects ==
    (pc = "done" /\ op = "planCall" /\ out.code # "") =>
        /\ out.plan = NoPlan
        /\ world.CallerOutputs = cfg.Outputs

\* C22: each of two concurrent plan invocations started from copies of the
\* same PlanConfig returns what it returns when run alone.
C22_ConcurrentPlansIndependent ==
    \A i \in Invocations :
        pc[i] = "done" =>
            out[i].res = PlanWithAmountString(cfg, notes, world, world.buf)

\* C23: on two orderings of the same candidates, with the same amount,
\* output count and fee policy, the selector returns the same notes in the
\* same order and the same fee (or the same error).
C23_SelectionIndependentOfOrder ==
    (pc = "done" /\ op = "selectOrders") => out.first = out.second

\* Two notes of 70000 with txid 2 listed before txid 1: both orders return
\* the note of txid 1.
C23_Witness ==
    /\ pc = "done" /\ op = "selectOrders"
    /\ Len(notes) = 2 /\ notes[1].value = 70000 /\ notes[2].value = 70000
    /\ notes[1].txid = 2 /\ notes[2].txid = 1
    /\ world = <<2, 1>>
    /\ out.first.err = "" /\ Len(out.first.selected) = 1
    /\ out.first.selected[1].txid = 1
    /\ out.second.selected[1].txid = 1

\* The value of a sequence of digits.
RECURSIVE DecimalValue(_)
DecimalValue(ds) ==
    IF Len(ds) = 0 THEN 0
    ELSE 10 * DecimalValue(SubSeq(ds, 1, Len(ds) - 1)) + DigitValue(ds[Len(ds)])

AllDigits(ds) == \A i \in 1..Len(ds) : ds[i] \in Digits

\* whole x 10^8 + frac, the fractional digits right-padded to 8.
ExactZat(t) == DecimalValue(CutWhole(t)) * ZatPerZEC + DecimalValue(PadFrac(CutFrac(t)))

\* C24: ParseZECToZat rejects empty input, negatives and more than 8
\* fractional digits; on a decimal it returns whole x 10^8 + frac when that
\* fits the word and an error, never a wrapped value, when it does not.
C24_ParseExactOrError ==
    (pc = "done" /\ op = "parseZEC") =>
        LET t == TrimSpace(world)
        IN  IF Len(t) = 0 \/ Head(t) = "-" \/ Len(CutFrac(t)) > FracDigits THEN ~out.ok
            ELSE (AllDigits(CutWhole(t)) /\ AllDigits(CutFrac(t))) =>
                    IF ExactZat(t) <= MaxZatWord
                    THEN out.ok /\ out.v = ExactZat(t)
                    ELSE ~out.ok

MaxOf(a, b) == IF a > b THEN a ELSE b

\* C25: RequiredFeeSend(n, o) is 5000 x max(n, o, 2); Apply(base) returns
\* max(multiplier, 1) x base + add when that fits the word and an overflow
\* error otherwise.
C25_FeeFormulas ==
    (pc = "done" /\ op = "fee") =>
        /\ out.required = MarginalFee * MaxOf(MaxOf(cfg.spendCount, cfg.outputCount), MinActions)
        /\ LET exact == MaxOf(cfg.feePolicy.Multiplier, 1) * cfg.base + cfg.feePolicy.AddZat
           IN  IF exact <= MaxUint64
               THEN out.applied.ok /\ out.applied.v = exact
               ELSE ~out.applied.ok

\* Three spends and one output: 15000, and 31000 under the policy {2, 1000}.
C25_Witness ==
    /\ pc = "done" /\ op = "fee"
    /\ cfg.spendCount = 3 /\ cfg.outputCount = 1 /\ out.required = 15000
    /\ cfg.base = 15000 /\ cfg.feePolicy = [Multiplier |-> 2, AddZat |-> 1000]
    /\ out.applied = [v |-> 31000, ok |-> TRUE]

\* Folding a leaf with its path along the bits of its position.
RECURSIVE FoldPath(_, _, _, _)
FoldPath(node, path, position, level) ==
    IF level > Len(path) THEN node
    ELSE FoldPath(IF position % 2 = 0 THEN H(node, path[level]) ELSE H(path[level], node),
                  path, position \div 2, level + 1)

\* The tree as a function of the leaves: the node of index j of a level.
RECURSIVE TreeNode(_, _, _)
TreeNode(leaves, level, j) ==
    IF level = 0 THEN (IF j < Len(leaves) THEN leaves[j + 1] ELSE EmptyRoot(0))
    ELSE H(TreeNode(leaves, level - 1, 2 * j), TreeNode(leaves, level - 1, 2 * j + 1))

ExactFee(m, k) ==
    MaxOf(cfg.feePolicy.Multiplier, 1) * MarginalFee * MaxOf(MaxOf(m, k), MinActions)
        + cfg.feePolicy.AddZat

ExactNeed(m, k) == cfg.amountZat + ExactFee(m, k)

\* The 1-note and 2-note strategies run to their end and find nothing.
OneAndTwoNoteStrategiesMiss ==
    /\ Len(notes) > 0
    /\ ExactNeed(2, cfg.outputCount + 1) <= MaxUint64
    /\ \A i \in 1..Len(notes) :
          /\ notes[i].value # ExactNeed(1, cfg.outputCount)
          /\ notes[i].value < ExactNeed(1, cfg.outputCount + 1)
    /\ \A i, j \in 1..Len(notes) :
          i < j => /\ notes[i].value + notes[j].value # ExactNeed(2, cfg.outputCount)
                   /\ notes[i].value + notes[j].value < ExactNeed(2, cfg.outputCount + 1)

PrefixTotal(m) == SumValues(SubSeq(sortByDesc(notes), 1, m))

PrefixQualifies(m) ==
    \/ PrefixTotal(m) = ExactNeed(m, cfg.outputCount)
    \/ PrefixTotal(m) >= ExactNeed(m, cfg.outputCount + 1)

\* The result is the largest-first prefix of length m with the fee of its case.
ReturnsPrefix(m) ==
    /\ out.err = ""
    /\ out.selected = SubSeq(sortByDesc(notes), 1, m)
    /\ out.fee = IF PrefixTotal(m) = ExactNeed(m, cfg.outputCount)
                 THEN ExactFee(m, cfg.outputCount)
                 ELSE ExactFee(m, cfg.outputCount + 1)

\* C27 as stated: when the 1-note and 2-note strategies miss, the selector
\* returns the first largest-first prefix whose total equals the no-change
\* need or reaches the with-change need, with the matching fee.
C27_GreedyReturnsFirstQualifyingPrefix ==
    (pc = "done" /\ op = "select" /\ OneAndTwoNoteStrategiesMiss) =>
        \A m \in 1..Len(notes) :
            (PrefixQualifies(m) /\ \A l \in 1..(m - 1) : ~PrefixQualifies(l))
                => ReturnsPrefix(m)

\* C27 amended: the same, absent arithmetic overflow.
C27_GreedyReturnsFirstQualifyingPrefixAbsentOverflow ==
    (pc = "done" /\ op = "select" /\ OneAndTwoNoteStrategiesMiss /\ NoOverflow) =>
        \A m \in 1..Len(notes) :
            (PrefixQualifies(m) /\ \A l \in 1..(m - 1) : ~PrefixQualifies(l))
                => ReturnsPrefix(m)

\* Three notes of 25000, amount 60000, two outputs: all three, fee 15000.
C27_Witness ==
    /\ pc = "done" /\ op = "select" /\ OneAndTwoNoteStrategiesMiss
    /\ Len(notes) = 3 /\ \A i \in 1..3 : notes[i].value = 25000
    /\ cfg.amountZat = 60000 /\ cfg.outputCount = 2
    /\ Len(out.selected) = 3 /\ out.fee = 15000

(***************************************************************************)
(* The 2-note best fit                                                     *)
(***************************************************************************)

\* The strategies before the 2-note best fit run to their end and find
\* nothing: no note equals the no-change need or reaches the with-change
\* need of one spend, and no pair equals the no-change need of two.
StrategiesBeforeBestFitMiss ==
    /\ Len(notes) >= 2
    /\ ExactNeed(2, cfg.outputCount + 1) <= MaxUint64
    /\ \A i \in 1..Len(notes) :
          /\ notes[i].value # ExactNeed(1, cfg.outputCount)
          /\ notes[i].value < ExactNeed(1, cfg.outputCount + 1)
    /\ \A i, j \in 1..Len(notes) :
          i < j => notes[i].value + notes[j].value # ExactNeed(2, cfg.outputCount)

\* The total of the pair p of indices into the ascending order.
PairTotal(p) == sortByAsc(notes)[p[1]].value + sortByAsc(notes)[p[2]].value

\* The pairs of distinct candidates that reach the with-change need.
ReachingPairs ==
    {p \in (1..Len(notes)) \X (1..Len(notes)) :
        p[1] < p[2] /\ PairTotal(p) >= ExactNeed(2, cfg.outputCount + 1)}

\* p is no worse than q: a smaller total, or the same total and the lower
\* first index, then the lower second index.
PairNoWorse(p, q) ==
    \/ PairTotal(p) < PairTotal(q)
    \/ /\ PairTotal(p) = PairTotal(q)
       /\ (p[1] < q[1] \/ (p[1] = q[1] /\ p[2] <= q[2]))

BestPair == CHOOSE p \in ReachingPairs : \A q \in ReachingPairs : PairNoWorse(p, q)

BestFitSucceeded ==
    pc = "done" /\ op = "select" /\ StrategiesBeforeBestFitMiss
        /\ out.err = "" /\ Len(out.selected) = 2

\* C28: when the 2-note best fit is the strategy that succeeds, it returns
\* the pair of least total among the pairs reaching amount + fee(2, k_out+1),
\* ties going to the lowest first and then lowest second index of the
\* ascending order, with the with-change fee; and it goes on to the next
\* strategy only when no pair reaches that need.
C28_BestFitReturnsMinimumPair ==
    /\ BestFitSucceeded =>
          /\ ReachingPairs # {}
          /\ out.selected = <<sortByAsc(notes)[BestPair[1]], sortByAsc(notes)[BestPair[2]]>>
          /\ out.fee = ExactFee(2, cfg.outputCount + 1)
    /\ (pc = "done" /\ op = "select" /\ StrategiesBeforeBestFitMiss
            /\ ReachingPairs # {}) =>
          \/ out.err = "" /\ Len(out.selected) = 2
          \/ /\ out.err = "overflow"
             /\ \E i, j \in 1..Len(notes) :
                   i < j /\ notes[i].value + notes[j].value > MaxUint64

\* The best fit succeeds where more than one pair reaches the need and the
\* pair of least total is not the first one the loop meets.
C28_Witness ==
    /\ BestFitSucceeded
    /\ cfg.amountZat = 85000 /\ cfg.outputCount = 2
    /\ \E q \in ReachingPairs : q[1] < BestPair[1] /\ PairTotal(q) > PairTotal(BestPair)

(***************************************************************************)
(* No note is returned twice                                               *)
(***************************************************************************)

\* The number of entries of s equal to x.
TimesIn(x, s) == Cardinality({i \in 1..Len(s) : s[i] = x})

\* sel holds no entry more often than cand does.
SubMultiset(sel, cand) ==
    \A i \in 1..Len(sel) : TimesIn(sel[i], sel) <= TimesIn(sel[i], cand)

\* The note_id of a plan note: the outpoint of the selected note.
NoteID(n) == <<n.txid, n.idx>>

OutpointsDistinct(ns) ==
    \A i, j \in 1..Len(ns) : i # j => NoteID(ns[i]) # NoteID(ns[j])

ConsolidationSelected == pc = "done" /\ op = "selectForConsolidation" /\ out.code = ""

\* C29: every list returned by SelectNotesWithFeePolicy and by
\* selectNotesForConsolidation is a sub-multiset of the candidates, no
\* candidate entry being returned more than once; and when the candidate
\* outpoints are pairwise distinct the note_ids of an emitted plan are
\* pairwise distinct.
C29_NoNoteReturnedTwice ==
    /\ Selected => SubMultiset(out.selected, notes)
    /\ ConsolidationSelected => SubMultiset(out.selected, notes)
    /\ (Emitted /\ OutpointsDistinct(notes)) =>
          \A i, j \in 1..Len(out.plan.Notes) :
              i # j => NoteID(out.plan.Notes[i]) # NoteID(out.plan.Notes[j])

\* A consolidation of all the candidates but one, made of the smallest note
\* and the largest one, which are next to the note left out.
C29_Witness ==
    /\ ConsolidationSelected
    /\ OutpointsDistinct(notes)
    /\ Len(notes) = 3 /\ Len(out.selected) = 2
    /\ out.selected[1].value = 100 /\ out.selected[2].value = 12000

(***************************************************************************)
(* Success of the selector                                                 *)
(***************************************************************************)

\* The total of all the candidates reaches the with-change need of spending
\* them all.
AllNotesMeetWithChange ==
    Len(notes) > 0
        /\ SumValues(notes) >= ExactNeed(Len(notes), cfg.outputCount + 1)

\* C30: absent arithmetic overflow, the selector succeeds whenever some
\* non-empty subset S of the candidates has sum(S) >= amount +
\* fee(|S|, k_out+1), in particular whenever the total of all n candidates
\* is >= amount + fee(n, k_out+1).
C30_SucceedsWhenSomeSubsetMeetsWithChange ==
    (pc = "done" /\ op = "select" /\ NoOverflow) =>
        /\ (\E S \in NoteSubsets : MeetsWithChange(notes, S)) => out.err = ""
        /\ AllNotesMeetWithChange => out.err = ""

\* A success of the greedy fallback where no one or two candidates reach
\* the with-change need and the largest-first prefix returned leaves a
\* candidate out.
C30_Witness ==
    /\ Selected
    /\ OneAndTwoNoteStrategiesMiss
    /\ \E S \in NoteSubsets : MeetsWithChange(notes, S)
    /\ Len(out.selected) = 3 /\ Len(notes) = 4
    /\ SumValues(out.selected) > ExactNeed(3, cfg.outputCount)

===========================================================================
